---------------------------- MODULE Spec2Model ----------------------------
(***************************************************************************)
(* ClipForge: the pipeline orchestrator (lib/pipeline runPipeline), the    *)
(* status route that starts runs and registers SSE observers               *)
(* (app/api/status/route.ts) and the SSE stream (lib/sse.ts).              *)
(*                                                                         *)
(* JavaScript runs one callback at a time: everything between two awaits   *)
(* of real I/O is one step here.  A step of a run is therefore "the        *)
(* pending backend call settles and runPipeline continues up to the next   *)
(* backend call", including the .then/.catch handler of the route when     *)
(* runPipeline returns or throws in that continuation.                     *)
(***************************************************************************)
EXTENDS Integers, Sequences, FiniteSets, TLC

\* ---------------------------------------------------------------- bounds
ConcurrentRuns == 2 \* POST requests accepted in a behaviour of SpecConcurrent
MaxConns == 2       \* GET (EventSource) connections opened in a behaviour
MaxClips == 1       \* clips the highlight picker returns
MaxNative == 1      \* yt-dlp progress lines per download

Projects == {"p1"}
RunIds == 1..ConcurrentRuns

\* percentages yt-dlp prints ("[download]  45.2% of ...")
NativePcts == {0, 50}

\* ------------------------------------------------------- stage catalog
PIPELINE_STEPS ==
  << "download", "extract-audio", "transcribe", "detect-silence",
     "analyze", "extract-clips", "render", "story-compose" >>

StepIndex(s) == CHOOSE k \in 1..Len(PIPELINE_STEPS) : PIPELINE_STEPS[k] = s

IsStep(s) == \E k \in 1..Len(PIPELINE_STEPS) : PIPELINE_STEPS[k] = s

\* ------------------------------------------------------------ messages
\* SSEMessage; an absent optional field is "none" (progress: -1)
SSEMessage(type, stepId, progress, message, error) ==
  [type |-> type, stepId |-> stepId, progress |-> progress,
   message |-> message, error |-> error]

EvStart(s) == SSEMessage("progress", s, 0, "start", "none")
EvNative(s, pct) == SSEMessage("progress", s, pct, "native", "none")
EvCached(s) == SSEMessage("progress", s, 100, "cached", "none")
EvComplete(s) == SSEMessage("step-complete", s, -1, "complete", "none")
EvSkipped(s) == SSEMessage("step-complete", s, -1, "skipped", "none")

\* Math.round((current / total) * 100) for 1 <= current <= total
RoundPct(current, total) == (200 * current + total) \div (2 * total)

EvItem(s, current, total) ==
  SSEMessage("progress", s, RoundPct(current, total), "item", "none")

\* ---------------------------------------------------------------- state
VARIABLES
  activePipelines,  \* registry: project id -> connId of the entry, 0 = no entry
  conns,            \* the SSE connections opened so far, connId = position
  runs,             \* the runPipeline executions started so far
  disk,             \* per project: the workspace files
  call              \* one invocation of a library function examined on its own

vars == << activePipelines, conns, runs, disk, call >>

\* no function is examined on its own: the pipeline and the route run
NoCall == [fn |-> "none"]

\* A file is [by, at]: by = who wrote it last (Absent: the file does not
\* exist; Before: it was there before the first request; r >= 1: run r) and
\* at = how many messages that run had emitted when it wrote the file.
Absent == 0
Before == -1

NoFile == [by |-> Absent, at |-> 0]
OldFile == [by |-> Before, at |-> 0]

\* fileReady: exists and size > 0 (every file written here is non-empty)
fileReady(f) == f.by # Absent

\* the workspace of a project (getProjectPaths); analysis is the clip
\* manifest, a file with the clip list it holds
NoManifest == [by |-> Absent, at |-> 0, clips |-> << >>]

EmptyDisk ==
  [source |-> NoFile, metadata |-> NoFile, audio |-> NoFile,
   transcript |-> NoFile, silence |-> NoFile, analysis |-> NoManifest]

\* what an earlier, unfinished session can have left behind: nothing; a
\* download with its audio; a download, its audio and a transcript
ResumePoints ==
  { EmptyDisk,
    [EmptyDisk EXCEPT !.source = OldFile, !.metadata = OldFile, !.audio = OldFile],
    [EmptyDisk EXCEPT !.source = OldFile, !.metadata = OldFile, !.audio = OldFile,
                      !.transcript = OldFile] }

\* ------------------------------------------------------------------ clips
\* a Clip as analyzeHighlights creates it; the artifact paths are present
\* (TRUE) or undefined (FALSE)
NewClip(i, story) ==
  [id |-> i, status |-> "pending", storyMeta |-> story,
   sourcePath |-> FALSE, renderedPath |-> FALSE, storyPath |-> FALSE]

\* the clip lists the highlight picker can return: 0..MaxClips items, each
\* with or without story metadata
HighlightResults ==
  UNION { { [i \in 1..n |-> NewClip(i, f[i])] : f \in [1..n -> BOOLEAN] } :
          n \in 0..MaxClips }

\* ------------------------------------------------------- one run's record
\* stage:    the stage runPipeline is in ("none" before the first)
\* status:   running (awaiting a backend) | resolved | rejected
\* idx:      clips finished in the current per-clip loop
\* nat:      native progress callbacks of the current backend call
\* clips:    the list the current stage works on (clips/extracted/rendered)
\* results:  the results array of the current per-clip loop
\* emitted:  every message handed to the progress sink for this run
\* invoked:  the stage functions called, in call order, each with the
\*           number of messages the run had emitted when it was called
\* err:      message of the Error that ended the run ("none" if none)
NewRun(r, p) ==
  [id |-> r, project |-> p, stage |-> "none", status |-> "running",
   idx |-> 0, nat |-> 0, clips |-> << >>, results |-> << >>,
   emitted |-> << >>, invoked |-> << >>, err |-> "none"]

\* ------------------------------------------- runPipeline, piece by piece
\* A context c = [run |-> the run's record, fs |-> its project's workspace]
\* is threaded through the synchronous code between two backend calls.
Emit(c, msg) == [c EXCEPT !.run.emitted = Append(@, msg)]

Call(c, s) ==
  [c EXCEPT !.run.invoked = Append(@, [stage |-> s, at |-> Len(c.run.emitted)])]

At(c, s) == [c EXCEPT !.run.stage = s, !.run.idx = 0, !.run.nat = 0,
                      !.run.results = << >>]

\* a throw whose handler rolls the clip manifest back
ThrowRollback(c, message) ==
  [c EXCEPT !.run.status = "rejected", !.run.err = message,
            !.fs.analysis = NoManifest]

Throw(c, message) == [c EXCEPT !.run.status = "rejected", !.run.err = message]

Return(c) == [c EXCEPT !.run.status = "resolved"]

\* the file a run writes now
Written(c) == [by |-> c.run.id, at |-> Len(c.run.emitted)]

\* writeFileSync(paths.analysis, JSON.stringify(list))
WriteAnalysis(c, list) ==
  [c EXCEPT !.fs.analysis = [by |-> c.run.id, at |-> Len(c.run.emitted),
                             clips |-> list]]

\* --- step 8: story-compose
storyClips(list) == SelectSeq(list, LAMBDA x : x.storyMeta /\ x.renderedPath)

\* a return value that holds the composed clips only
storiedOnly(list, results) == results

\* composeAllStories' return value: every clip, the composed ones replaced
storied(list, results) ==
  [i \in 1..Len(list) |->
     IF \E j \in 1..Len(results) : results[j].id = list[i].id
       THEN results[CHOOSE j \in 1..Len(results) : results[j].id = list[i].id]
       ELSE list[i]]

\* StoryDone without the writeFileSync of the storied list
StoryDoneNoWrite(c) ==
  LET out == storied(c.run.clips, c.run.results)
  IN Return(Emit([c EXCEPT !.run.clips = out], EvComplete("story-compose")))

StoryDone(c) ==
  LET out == storied(c.run.clips, c.run.results)
      c1 == WriteAnalysis([c EXCEPT !.run.clips = out], out)
  IN Return(Emit(c1, EvComplete("story-compose")))

StoryLoop(c) ==
  LET todo == storyClips(c.run.clips)
  IN IF c.run.idx < Len(todo)
       THEN Emit(c, EvItem("story-compose", c.run.idx + 1, Len(todo)))
       ELSE StoryDone(c)

\* EnterStory whose else branch returns without the skipped step-complete
EnterStorySilentSkip(c) ==
  LET hasStoryMeta == \E i \in 1..Len(c.run.clips) : c.run.clips[i].storyMeta
  IN IF hasStoryMeta
       THEN StoryLoop(Call(Emit(At(c, "story-compose"), EvStart("story-compose")),
                           "story-compose"))
       ELSE Return(c)

EnterStory(c) ==
  LET hasStoryMeta == \E i \in 1..Len(c.run.clips) : c.run.clips[i].storyMeta
  IN IF hasStoryMeta
       THEN StoryLoop(Call(Emit(At(c, "story-compose"), EvStart("story-compose")),
                           "story-compose"))
       ELSE Return(Emit(c, EvSkipped("story-compose")))

\* --- step 7: render
RenderDone(c) ==
  LET rendered == c.run.results
      c1 == WriteAnalysis([c EXCEPT !.run.clips = rendered], rendered)
  IN EnterStory(Emit(c1, EvComplete("render")))

RenderLoop(c) ==
  IF c.run.idx < Len(c.run.clips)
    THEN Emit(c, EvItem("render", c.run.idx + 1, Len(c.run.clips)))
    ELSE RenderDone(c)

EnterRender(c) ==
  RenderLoop(Call(Emit(At(c, "render"), EvStart("render")), "render"))

\* --- step 6: extract-clips
ExtractDone(c) ==
  LET extracted == c.run.results
      c1 == WriteAnalysis([c EXCEPT !.run.clips = extracted], extracted)
  IN EnterRender(Emit(c1, EvComplete("extract-clips")))

ExtractLoop(c) ==
  IF c.run.idx < Len(c.run.clips)
    THEN Emit(c, EvItem("extract-clips", c.run.idx + 1, Len(c.run.clips)))
    ELSE ExtractDone(c)

EnterExtract(c) ==
  ExtractLoop(Call(Emit(At(c, "extract-clips"), EvStart("extract-clips")),
                   "extract-clips"))

\* --- step 5: analyze
AnalyzeDone(c, clips) ==
  LET c1 == WriteAnalysis([c EXCEPT !.run.clips = clips], clips)
  IN EnterExtract(Emit(c1, EvComplete("analyze")))

EnterAnalyze(c) == Call(Emit(At(c, "analyze"), EvStart("analyze")), "analyze")

\* --- step 4: detect-silence
\* SilenceDone that reports the step complete before it writes silence.json
SilenceDoneEarlyComplete(c) ==
  LET c1 == Emit(c, EvComplete("detect-silence"))
  IN EnterAnalyze([c1 EXCEPT !.fs.silence = Written(c1)])

SilenceDone(c) ==
  EnterAnalyze(Emit([c EXCEPT !.fs.silence = Written(c)],
                    EvComplete("detect-silence")))

EnterSilence(c) ==
  Call(Emit(At(c, "detect-silence"), EvStart("detect-silence")), "detect-silence")

\* --- step 3: transcribe
\* TranscribeDone that goes on without writing transcript.json
TranscribeDoneUnwritten(c) == EnterSilence(Emit(c, EvComplete("transcribe")))

TranscribeDone(c) ==
  EnterSilence(Emit([c EXCEPT !.fs.transcript = Written(c)],
                    EvComplete("transcribe")))

EnterTranscribe(c) ==
  LET c1 == Emit(At(c, "transcribe"), EvStart("transcribe"))
  IN IF fileReady(c1.fs.transcript)
       THEN EnterSilence(Emit(Emit(c1, EvCached("transcribe")),
                              EvComplete("transcribe")))
       ELSE Call(c1, "transcribe")

\* --- step 2: extract-audio
AudioComplete(c) == EnterTranscribe(Emit(c, EvComplete("extract-audio")))

\* ffmpeg wrote the audio file
AudioDone(c) == AudioComplete([c EXCEPT !.fs.audio = Written(c)])

EnterAudio(c) ==
  LET c1 == Emit(At(c, "extract-audio"), EvStart("extract-audio"))
  IN IF ~fileReady(c1.fs.audio)
       THEN Call(c1, "extract-audio")
       ELSE AudioComplete(c1)

\* --- step 1: download
\* yt-dlp wrote the source; readMetadata + writeFileSync(paths.metadata)
DownloadDone(c) ==
  EnterAudio(Emit([c EXCEPT !.fs.source = Written(c), !.fs.metadata = Written(c)],
                  EvComplete("download")))

EnterDownload(c, validUrl) ==
  LET c1 == Emit(At(c, "download"), EvStart("download"))
  IN IF ~validUrl
       THEN Throw(c1, "Invalid YouTube URL")
       ELSE Call(c1, "download")

\* ------------------------------------------------------ lib/sse.ts stream
\* One SSE connection.  controller: the stream's controller is non-null;
\* aborted: the request's abort listener has run (its keepalive timer is
\* cleared); received[r]: positions in run r's emitted messages that were
\* enqueued on this stream, in the order enqueued; last: what was enqueued
\* last, <<r, position>> or Ping or Nothing.
Nothing == << 0, 0 >>
Ping == << 0, 1 >>

\* a registration that replays what the project's runs emitted so far
NewConnReplay(p) ==
  [project |-> p, controller |-> TRUE, aborted |-> FALSE,
   received |-> [r \in RunIds |->
                   IF r <= Len(runs) /\ runs[r].project = p
                     THEN [k \in 1..Len(runs[r].emitted) |-> k]
                     ELSE << >>],
   last |-> Nothing]

NewConn(p) ==
  [project |-> p, controller |-> TRUE, aborted |-> FALSE,
   received |-> [r \in RunIds |-> << >>], last |-> Nothing]

\* send(msg) for messages from..to of run r, one call per message
send(conn, r, from, to) ==
  IF ~conn.controller \/ to < from
    THEN conn
    ELSE [conn EXCEPT !.received[r] = @ \o [k \in 1..(to - from + 1) |-> from + k - 1],
                      !.last = << r, to >>]

\* send({ type: 'progress', message: '' }) of the keepalive timer
sendKeepalive(conn) ==
  IF ~conn.controller THEN conn ELSE [conn EXCEPT !.last = Ping]

close(conn) == [conn EXCEPT !.controller = FALSE]

\* ------------------------------------------- app/api/status/route.ts POST
EvDone == SSEMessage("done", "none", -1, "Pipeline complete", "none")

\* connection.send({ type: 'error', error: err.message })
EvError(run) == SSEMessage("error", "none", -1, "none", run.err)

\* what .then / .catch hand to the sink when runPipeline settles
Settled(run) ==
  IF run.status = "resolved" THEN [run EXCEPT !.emitted = Append(@, EvDone)]
  ELSE IF run.status = "rejected" THEN [run EXCEPT !.emitted = Append(@, EvError(run))]
  ELSE run

\* One continuation of run r ran and left context c: every message it
\* emitted went through onProgress (the registry entry of the project, if
\* any, gets it); if runPipeline settled, .then/.catch send the terminal
\* message to that entry, close it and delete it.  (left: the context the
\* continuation left, evaluated once.)
Continue(r, left) ==
  \E c \in { left } : \E after \in { Settled(c.run) } :
    LET p == c.run.project
        cid == activePipelines[p]
        from == Len(runs[r].emitted) + 1
        to == Len(after.emitted)
        terminal == after.status # "running"
    IN /\ runs' = [runs EXCEPT ![r] = after]
       /\ disk' = [disk EXCEPT ![p] = c.fs]
       /\ UNCHANGED call
       /\ IF cid = 0
            THEN UNCHANGED << conns, activePipelines >>
            ELSE /\ conns' = [conns EXCEPT ![cid] =
                                IF terminal THEN close(send(@, r, from, to))
                                ELSE send(@, r, from, to)]
                 /\ activePipelines' =
                      IF terminal THEN [activePipelines EXCEPT ![p] = 0]
                      ELSE activePipelines

Ctx(r) == [run |-> runs[r], fs |-> disk[runs[r].project]]

Awaiting(r, s) ==
  /\ r \in 1..Len(runs)
  /\ runs[r].status = "running"
  /\ runs[r].stage = s

\* POST /api/status with a projectId and a url: runPipeline starts, whatever
\* the state of the project's earlier runs (limit: requests per behaviour)
StartRun(p, validUrl, limit) ==
  /\ Len(runs) < limit
  /\ LET r == Len(runs) + 1
         c == EnterDownload([run |-> NewRun(r, p), fs |-> disk[p]], validUrl)
         after == Settled(c.run)
         cid == activePipelines[p]
         terminal == after.status # "running"
     IN /\ runs' = Append(runs, after)
        /\ disk' = [disk EXCEPT ![p] = c.fs]
        /\ UNCHANGED call
        /\ IF cid = 0
             THEN UNCHANGED << conns, activePipelines >>
             ELSE /\ conns' = [conns EXCEPT ![cid] =
                                 IF terminal
                                   THEN close(send(@, r, 1, Len(after.emitted)))
                                   ELSE send(@, r, 1, Len(after.emitted))]
                  /\ activePipelines' =
                       IF terminal THEN [activePipelines EXCEPT ![p] = 0]
                       ELSE activePipelines

POST(p, validUrl) == StartRun(p, validUrl, ConcurrentRuns)

\* the only POST of a behaviour
OnePOST(p, validUrl) == StartRun(p, validUrl, 1)

\* ---------------------------------------------- backends settle / report
\* yt-dlp prints a progress line
DownloadProgress(r, pct) ==
  /\ Awaiting(r, "download")
  /\ runs[r].nat < MaxNative
  /\ Continue(r, Emit([Ctx(r) EXCEPT !.run.nat = @ + 1], EvNative("download", pct)))

DownloadResolves(r) ==
  /\ Awaiting(r, "download")
  /\ Continue(r, DownloadDone(Ctx(r)))

ExtractAudioResolves(r) ==
  /\ Awaiting(r, "extract-audio")
  /\ Continue(r, AudioDone(Ctx(r)))

TranscribeResolves(r) ==
  /\ Awaiting(r, "transcribe")
  /\ Continue(r, TranscribeDone(Ctx(r)))

DetectSilenceResolves(r) ==
  /\ Awaiting(r, "detect-silence")
  /\ Continue(r, SilenceDone(Ctx(r)))

AnalyzeResolves(r, clips) ==
  /\ Awaiting(r, "analyze")
  /\ Continue(r, AnalyzeDone(Ctx(r), clips))

\* extractClip of clips[idx] resolved: results.push({...clip, sourcePath, status})
ExtractClipResolves(r) ==
  /\ Awaiting(r, "extract-clips")
  /\ LET c == Ctx(r)
         clip == c.run.clips[c.run.idx + 1]
         done == [clip EXCEPT !.sourcePath = TRUE, !.status = "extracted"]
     IN Continue(r, ExtractLoop([c EXCEPT !.run.results = Append(@, done),
                                          !.run.idx = @ + 1]))

RenderClipResolves(r) ==
  /\ Awaiting(r, "render")
  /\ LET c == Ctx(r)
         clip == c.run.clips[c.run.idx + 1]
         done == [clip EXCEPT !.renderedPath = TRUE, !.status = "rendered"]
     IN Continue(r, RenderLoop([c EXCEPT !.run.results = Append(@, done),
                                         !.run.idx = @ + 1]))

ComposeStoryResolves(r) ==
  /\ Awaiting(r, "story-compose")
  /\ LET c == Ctx(r)
         clip == storyClips(c.run.clips)[c.run.idx + 1]
         done == [clip EXCEPT !.storyPath = TRUE, !.status = "story-composed"]
     IN Continue(r, StoryLoop([c EXCEPT !.run.results = Append(@, done),
                                        !.run.idx = @ + 1]))

\* the pending backend call of the current stage rejects: nothing catches
\* it inside runPipeline
BackendRejects(r) ==
  /\ r \in 1..Len(runs)
  /\ runs[r].status = "running"
  /\ Continue(r, Throw(Ctx(r), "backend failed"))

\* ------------------------------------------- app/api/status/route.ts GET
GET(p) ==
  /\ Len(conns) < MaxConns
  /\ conns' = Append(conns, NewConn(p))
  /\ activePipelines' = [activePipelines EXCEPT ![p] = Len(conns) + 1]
  /\ UNCHANGED << runs, disk, call >>

\* the 15 s keepalive timer of connection cid fires
Keepalive(cid) ==
  /\ cid \in 1..Len(conns)
  /\ ~conns[cid].aborted
  /\ conns' = [conns EXCEPT ![cid] = sendKeepalive(@)]
  /\ UNCHANGED << activePipelines, runs, disk, call >>

\* an abort listener that also stops the project's running runs
AbortStopsRun(cid) ==
  /\ cid \in 1..Len(conns)
  /\ ~conns[cid].aborted
  /\ activePipelines' =
       IF activePipelines[conns[cid].project] = cid
         THEN [activePipelines EXCEPT ![conns[cid].project] = 0]
         ELSE activePipelines
  /\ conns' = [conns EXCEPT ![cid] = [close(@) EXCEPT !.aborted = TRUE]]
  /\ runs' = [r \in 1..Len(runs) |->
               IF runs[r].project = conns[cid].project /\ runs[r].status = "running"
                 THEN [runs[r] EXCEPT !.status = "rejected", !.err = "aborted"]
                 ELSE runs[r]]
  /\ UNCHANGED << disk, call >>

\* an abort listener that deletes the project's entry whoever holds it
AbortDeletesAlways(cid) ==
  /\ cid \in 1..Len(conns)
  /\ ~conns[cid].aborted
  /\ activePipelines' = [activePipelines EXCEPT ![conns[cid].project] = 0]
  /\ conns' = [conns EXCEPT ![cid] = [close(@) EXCEPT !.aborted = TRUE]]
  /\ UNCHANGED << runs, disk, call >>

\* req.signal 'abort' listener of connection cid
Abort(cid) ==
  /\ cid \in 1..Len(conns)
  /\ ~conns[cid].aborted
  /\ activePipelines' =
       IF activePipelines[conns[cid].project] = cid
         THEN [activePipelines EXCEPT ![conns[cid].project] = 0]
         ELSE activePipelines
  /\ conns' = [conns EXCEPT ![cid] = [close(@) EXCEPT !.aborted = TRUE]]
  /\ UNCHANGED << runs, disk, call >>

\* the consumer cancels the ReadableStream: cancel() { controller = null }
Cancel(cid) ==
  /\ cid \in 1..Len(conns)
  /\ conns[cid].controller
  /\ conns' = [conns EXCEPT ![cid].controller = FALSE]
  /\ UNCHANGED << activePipelines, runs, disk, call >>

\* ------------------------------------------------------------ behaviours
Init ==
  /\ activePipelines = [p \in Projects |-> 0]
  /\ conns = << >>
  /\ runs = << >>
  /\ disk \in [Projects -> ResumePoints]
  /\ call = NoCall

\* a pending backend call reports progress, resolves or rejects
Backends ==
  \/ \E r \in RunIds, pct \in NativePcts : DownloadProgress(r, pct)
  \/ \E r \in RunIds : DownloadResolves(r)
  \/ \E r \in RunIds : ExtractAudioResolves(r)
  \/ \E r \in RunIds : TranscribeResolves(r)
  \/ \E r \in RunIds : DetectSilenceResolves(r)
  \/ \E r \in RunIds, clips \in HighlightResults : AnalyzeResolves(r, clips)
  \/ \E r \in RunIds : ExtractClipResolves(r)
  \/ \E r \in RunIds : RenderClipResolves(r)
  \/ \E r \in RunIds : ComposeStoryResolves(r)
  \/ \E r \in RunIds : BackendRejects(r)

Next ==
  \/ \E p \in Projects, validUrl \in BOOLEAN : OnePOST(p, validUrl)
  \/ Backends
  \/ \E p \in Projects : GET(p)
  \/ \E cid \in 1..MaxConns : Keepalive(cid)
  \/ \E cid \in 1..MaxConns : Abort(cid)
  \/ \E cid \in 1..MaxConns : Cancel(cid)

\* one run of runPipeline, observers connecting and disconnecting
Spec == Init /\ [][Next]_vars

\* one run of runPipeline with no observer connected
NextPipeline ==
  \/ \E p \in Projects, validUrl \in BOOLEAN : OnePOST(p, validUrl)
  \/ Backends

SpecPipeline == Init /\ [][NextPipeline]_vars

\* several POSTs for one project, no observer connected
NextConcurrent ==
  \/ \E p \in Projects, validUrl \in BOOLEAN : POST(p, validUrl)
  \/ Backends

SpecConcurrent == Init /\ [][NextConcurrent]_vars

\* =================================================================
\* Properties
\* =================================================================
Last(seq) == seq[Len(seq)]

Has(seq, x) == \E i \in 1..Len(seq) : seq[i] = x

Called(run, s) == \E i \in 1..Len(run.invoked) : run.invoked[i].stage = s

\* what run r emitted, and which stage functions it called, in the step
\* just taken (all of it if the step started the run)
NewMsgs(r) ==
  IF r <= Len(runs)
    THEN SubSeq(runs'[r].emitted, Len(runs[r].emitted) + 1, Len(runs'[r].emitted))
    ELSE runs'[r].emitted

NewCalls(r) ==
  IF r <= Len(runs)
    THEN SubSeq(runs'[r].invoked, Len(runs[r].invoked) + 1, Len(runs'[r].invoked))
    ELSE runs'[r].invoked

AllStatus(list, st) == \A i \in 1..Len(list) : list[i].status = st

\* file f exists, and if this run wrote it, it did so before its message
\* number n + 1
WrittenBefore(f, r, n) == fileReady(f) /\ (f.by = r => f.at < n)

\* file f was written by run r before its message number n + 1
WrittenByBefore(f, r, n) == f.by = r /\ f.at < n

\* the artifact the stage before s leaves is written when s is called with n
\* messages emitted (by run r where the stage always writes; audio and
\* transcript may be older files); pending: the call is the one the run
\* awaits after the step, so the manifest on disk is the one it was given
ManifestStages == {"analyze", "extract-clips", "render", "story-compose"}

PriorArtifactWritten(fs, r, s, n, pending) ==
  /\ s \in ManifestStages \ {"analyze"} /\ pending => fs.analysis.at < n
  /\ CASE s = "download" -> TRUE
       [] s = "extract-audio" ->
            WrittenByBefore(fs.metadata, r, n) /\ WrittenByBefore(fs.source, r, n)
       [] s = "transcribe" -> WrittenBefore(fs.audio, r, n)
       [] s = "detect-silence" -> WrittenBefore(fs.transcript, r, n)
       [] s = "analyze" -> WrittenByBefore(fs.silence, r, n)
       [] s = "extract-clips" -> fs.analysis.by = r
       [] s = "render" ->
            fs.analysis.by = r /\ AllStatus(fs.analysis.clips, "extracted")
       [] s = "story-compose" ->
            /\ fs.analysis.by = r
            /\ \A i \in 1..Len(fs.analysis.clips) :
                 fs.analysis.clips[i].status \in {"rendered", "story-composed"}

\* every artifact of the stages before s is in the workspace
EarlierArtifactsPresent(fs, s) ==
  /\ StepIndex(s) > 1 => fileReady(fs.metadata)
  /\ StepIndex(s) > 2 => fileReady(fs.audio)
  /\ StepIndex(s) > 3 => fileReady(fs.transcript)
  /\ StepIndex(s) > 4 => fileReady(fs.silence)
  /\ StepIndex(s) > 5 => fileReady(fs.analysis)

StartsOf(run) == SelectSeq(run.emitted, LAMBDA e : e.message = "start")

\* the stages a run has begun are the first stages of the catalog, in the
\* catalog's order; the stage functions are called in that order, each at
\* most once; the call a running run awaits is the one of its current stage
StagesInOrder(run) ==
  /\ Len(StartsOf(run)) <= Len(PIPELINE_STEPS)
  /\ \A i \in 1..Len(StartsOf(run)) : StartsOf(run)[i].stepId = PIPELINE_STEPS[i]
  /\ \A i, j \in 1..Len(run.invoked) :
       i < j => StepIndex(run.invoked[i].stage) < StepIndex(run.invoked[j].stage)
  /\ run.status = "running" =>
       /\ run.invoked # << >>
       /\ Last(run.invoked).stage = run.stage
  /\ \A i \in 1..Len(run.invoked) :
       EarlierArtifactsPresent(disk[run.project], run.invoked[i].stage)

\* when a stage function is called, the stage before it has written its artifact
CalledAfterWrite ==
  \A r \in 1..Len(runs') :
    \A i \in 1..Len(NewCalls(r)) :
      PriorArtifactWritten(disk'[runs'[r].project], r,
                           NewCalls(r)[i].stage, NewCalls(r)[i].at,
                           runs'[r].status = "running" /\ i = Len(NewCalls(r)))

\* C1: in any run the stages are invoked one at a time in the order download,
\* extract-audio, transcribe, detect-silence, analyze, extract-clips, render,
\* story-compose, and no stage is invoked before the artifact of the stage
\* before it (metadata, audio, transcript, silence list, clip manifest) is
\* written.
C1_StagesSequential ==
  /\ [](\A r \in 1..Len(runs) : StagesInOrder(runs[r]))
  /\ [][CalledAfterWrite]_vars

\* a run on an empty workspace called all eight stage functions and returned
C1_Witness ==
  \E r \in 1..Len(runs) :
    /\ runs[r].status = "resolved"
    /\ Len(runs[r].invoked) = Len(PIPELINE_STEPS)
    /\ disk[runs[r].project].audio.by = r
    /\ disk[runs[r].project].transcript.by = r

\* position of the last step-complete of a manifest-writing stage in tr (0: none)
LastManifestComplete(tr) ==
  LET at == { i \in 1..Len(tr) : tr[i].type = "step-complete"
                                  /\ tr[i].message = "complete"
                                  /\ tr[i].stepId \in ManifestStages }
  IN IF at = {} THEN 0 ELSE CHOOSE i \in at : \A j \in at : j <= i

\* the artifact of stage s is in the workspace, and if run r wrote it, it
\* wrote it before its message number i, the stage's step-complete (the
\* manifest on disk is the one of the last stage that wrote it)
ArtifactPersisted(fs, r, s, i, tr) ==
  CASE s = "download" -> WrittenBefore(fs.metadata, r, i)
    [] s = "extract-audio" -> WrittenBefore(fs.audio, r, i)
    [] s = "transcribe" -> WrittenBefore(fs.transcript, r, i)
    [] s = "detect-silence" -> WrittenBefore(fs.silence, r, i)
    [] OTHER -> /\ fileReady(fs.analysis)
                /\ fs.analysis.by = r => fs.analysis.at + 1 = LastManifestComplete(tr)

\* the shape of a run's message trace: a stage's block opens with its
\* progress-0 message, continues with progress messages of that stage only and
\* is closed by its step-complete; the next block is the next stage's
TraceShape(run) ==
  LET tr == run.emitted
  IN \A i \in 1..Len(tr) :
       LET e == tr[i]
       IN CASE e.message = "start" ->
                 /\ e.type = "progress" /\ e.progress = 0 /\ IsStep(e.stepId)
                 /\ IF i = 1 THEN e.stepId = PIPELINE_STEPS[1]
                    ELSE /\ tr[i - 1].type = "step-complete"
                         /\ StepIndex(e.stepId) = StepIndex(tr[i - 1].stepId) + 1
            [] e.type = "progress" /\ e.message # "start" ->
                 /\ i > 1
                 /\ tr[i - 1].type = "progress"
                 /\ tr[i - 1].stepId = e.stepId
            [] e.type = "step-complete" /\ e.message = "complete" ->
                 /\ i > 1
                 /\ tr[i - 1].type = "progress"
                 /\ tr[i - 1].stepId = e.stepId
                 /\ ArtifactPersisted(disk[run.project], run.id, e.stepId, i, tr)
            [] e.type = "step-complete" /\ e.message = "skipped" ->
                 /\ ~Called(run, e.stepId)
                 /\ i > 1
                 /\ tr[i - 1].type = "step-complete"
            [] OTHER -> i = Len(tr)

\* the stage function is called right after the stage's progress-0 message
WorkAfterStart(run) ==
  \A i \in 1..Len(run.invoked) :
    /\ run.invoked[i].at >= 1
    /\ run.emitted[run.invoked[i].at] = EvStart(run.invoked[i].stage)

\* a stage that finished has exactly one step-complete
OneComplete(run) ==
  \A i, j \in 1..Len(run.emitted) :
    /\ run.emitted[i].type = "step-complete"
    /\ run.emitted[j].type = "step-complete"
    /\ run.emitted[i].stepId = run.emitted[j].stepId
    => i = j

\* C2: for every stage runPipeline invokes, the emitted trace is one progress
\* message with progress 0 before the stage's work starts, then only progress
\* messages of that stage, then (on success, the artifact being persisted)
\* exactly one step-complete of that stage; two stages' messages never interleave.
C2_TraceShape ==
  \A r \in 1..Len(runs) :
    /\ TraceShape(runs[r])
    /\ WorkAfterStart(runs[r])
    /\ OneComplete(runs[r])
    /\ runs[r].status = "resolved" =>
         \A i \in 1..Len(runs[r].invoked) :
           Has(runs[r].emitted, EvComplete(runs[r].invoked[i].stage))

\* a run returned after a native download progress line, per-clip progress
\* messages and the step-complete of the story stage
C2_Witness ==
  \E r \in 1..Len(runs) :
    /\ runs[r].status = "resolved"
    /\ \E i \in 1..Len(runs[r].emitted) : runs[r].emitted[i].message = "native"
    /\ \E i \in 1..Len(runs[r].emitted) :
         runs[r].emitted[i].message = "item" /\ runs[r].emitted[i].stepId = "render"
    /\ Has(runs[r].emitted, EvComplete("story-compose"))

\* C3: when extract-audio (resp. transcribe) is reached and its artifact
\* exists and is non-empty, the backend is not invoked and a progress-100
\* "cached" message of that stage precedes its step-complete, for both stages.
C3_CachedBothStages ==
  [][\A r \in 1..Len(runs') :
       \A s \in {"extract-audio", "transcribe"} :
         LET fs == disk[runs'[r].project]
             ready == fileReady(IF s = "extract-audio" THEN fs.audio ELSE fs.transcript)
             new == NewMsgs(r)
         IN Has(new, EvStart(s)) /\ ready =>
              /\ \A i \in 1..Len(NewCalls(r)) : NewCalls(r)[i].stage # s
              /\ \E i \in 1..(Len(new) - 1) :
                   new[i] = EvCached(s) /\ new[i + 1] = EvComplete(s)]_vars

\* C4: whenever a stage throws, the sink gets a terminal error message that
\* carries the id of the failing stage and the error message, and nothing
\* follows it.
C4_ErrorNamesStage ==
  \A r \in 1..Len(runs) :
    runs[r].status = "rejected" =>
      /\ Last(runs[r].emitted).type = "error"
      /\ Last(runs[r].emitted).error = runs[r].err
      /\ Last(runs[r].emitted).stepId = runs[r].stage
      /\ \A i \in 1..(Len(runs[r].emitted) - 1) : runs[r].emitted[i].type # "error"

\* a run that threw takes no further step: no stage call, no message
FrozenAfterThrow ==
  \A r \in 1..Len(runs) : runs[r].status = "rejected" => runs'[r] = runs[r]

\* the step in which a run throws writes and deletes nothing, calls no stage
\* function and emits nothing after the throw but the error message
ThrowLeavesArtifacts ==
  \A r \in 1..Len(runs') :
    /\ runs'[r].status = "rejected"
    /\ r <= Len(runs) => runs[r].status = "running"
    => /\ disk' = disk
       /\ Last(NewMsgs(r)).type = "error"
       /\ \A i \in 1..(Len(NewMsgs(r)) - 1) :
            r > Len(runs) /\ i = 1 /\ NewMsgs(r)[i] = EvStart("download")
       /\ NewCalls(r) = << >>
       /\ r <= Len(runs) => runs'[r].stage = runs[r].stage

HasStoryMeta(list) == \E i \in 1..Len(list) : list[i].storyMeta

\* position of message msg in seq (0: not in it)
IndexOf(seq, msg) ==
  IF Has(seq, msg) THEN CHOOSE i \in 1..Len(seq) : seq[i] = msg ELSE 0

\* the step that ends the render stage: the manifest on disk is the rendered
\* list; without story metadata composeAllStories is not called, the skipped
\* step-complete follows and the run returns with that manifest; with story
\* metadata composeAllStories is called after the stage's progress-0 message
RenderEndsInSkipOrStory ==
  \A r \in 1..Len(runs') :
    LET run == runs'[r]
        fs == disk'[run.project]
        new == NewMsgs(r)
        k == IndexOf(new, EvComplete("render"))
    IN k > 0 =>
         /\ fs.analysis.by = r
         /\ fs.analysis.clips = run.clips
         /\ AllStatus(run.clips, "rendered")
         /\ fs.analysis.at + 1 = IndexOf(run.emitted, EvComplete("render"))
         /\ IF HasStoryMeta(run.clips)
              THEN /\ Called(run, "story-compose")
                   /\ new[k + 1] = EvStart("story-compose")
                   /\ ~Has(run.emitted, EvSkipped("story-compose"))
                   /\ run.status = "running"
              ELSE /\ ~Called(run, "story-compose")
                   /\ new[k + 1] = EvSkipped("story-compose")
                   /\ run.status = "resolved"

\* the step that ends the story stage rewrote the manifest, with the composed
\* clips, before the stage's step-complete
StoryRewritesManifest ==
  \A r \in 1..Len(runs') :
    LET run == runs'[r]
        fs == disk'[run.project]
        k == IndexOf(run.emitted, EvComplete("story-compose"))
    IN Has(NewMsgs(r), EvComplete("story-compose")) =>
         /\ Called(run, "story-compose")
         /\ fs.analysis.by = r
         /\ fs.analysis.at + 1 = k
         /\ fs.analysis.at > IndexOf(run.emitted, EvComplete("render"))
         /\ fs.analysis.clips = run.clips
         /\ \A i \in 1..Len(run.clips) :
              IF run.clips[i].storyMeta
                THEN run.clips[i].status = "story-composed" /\ run.clips[i].storyPath
                ELSE run.clips[i].status = "rendered" /\ ~run.clips[i].storyPath

\* a run that skipped the story stage never called it and left the manifest
\* of the render stage; a run never both skips and completes the stage
SkippedKeepsManifest ==
  \A r \in 1..Len(runs) :
    Has(runs[r].emitted, EvSkipped("story-compose")) =>
      /\ ~Called(runs[r], "story-compose")
      /\ ~Has(runs[r].emitted, EvComplete("story-compose"))
      /\ ~Has(runs[r].emitted, EvStart("story-compose"))
      /\ disk[runs[r].project].analysis.by = r =>
           /\ disk[runs[r].project].analysis.at + 1
                = IndexOf(runs[r].emitted, EvComplete("render"))
           /\ ~HasStoryMeta(disk[runs[r].project].analysis.clips)

\* C7: if no rendered clip carries story metadata, story composition is not
\* invoked, a "skipped" step-complete of story-compose is emitted and the
\* manifest stays as the render stage wrote it; if a clip carries story
\* metadata, composition is invoked and the manifest is rewritten before the
\* step-complete of story-compose.
C7_StorySkippedOrComposed ==
  /\ []SkippedKeepsManifest
  /\ [][RenderEndsInSkipOrStory /\ StoryRewritesManifest]_vars

\* a run composed the story of a clip with story metadata and returned
C7_Witness ==
  \E r \in 1..Len(runs) :
    /\ runs[r].status = "resolved"
    /\ runs[r].clips # << >>
    /\ Has(runs[r].emitted, EvComplete("story-compose"))
    /\ disk[runs[r].project].analysis.clips[1].status = "story-composed"

\* the connections that got message number i of run r
GotMessage(r, i) ==
  { cid \in 1..Len(conns) : Has(conns[cid].received[r], i) }

\* C6: a run in which every stage succeeds emits exactly one done message,
\* after the step-complete of story-compose, and it is the last message of the
\* run (the observer that gets it is closed and unregistered with it).
C6_DoneIsLast ==
  \A r \in 1..Len(runs) :
    LET tr == runs[r].emitted
    IN /\ runs[r].status = "resolved" =>
            /\ Len(tr) >= 2
            /\ Last(tr) = EvDone
            /\ tr[Len(tr) - 1].type = "step-complete"
            /\ tr[Len(tr) - 1].stepId = "story-compose"
            /\ \A i \in 1..(Len(tr) - 1) : tr[i].type # "done"
            /\ \A cid \in GotMessage(r, Len(tr)) :
                 /\ ~conns[cid].controller
                 /\ conns[cid].last = << r, Len(tr) >>
                 /\ activePipelines[conns[cid].project] # cid
       /\ runs[r].status # "resolved" =>
            \A i \in 1..Len(tr) : tr[i].type # "done"

\* a run returned and a connected observer got its done message
C6_Witness ==
  \E r \in 1..Len(runs) :
    /\ runs[r].status = "resolved"
    /\ GotMessage(r, Len(runs[r].emitted)) # {}

\* C8: a project id has at most one open observer at any moment: registering
\* a new observer closes the prior one.
C8_OneOpenObserver ==
  \A c1, c2 \in 1..Len(conns) :
    c1 # c2 /\ conns[c1].project = conns[c2].project
    => ~(conns[c1].controller /\ conns[c2].controller)

\* C9: a POST for a project whose previous run has not terminated never
\* leaves two runPipeline executions active for that project.
C9_OneActiveRun ==
  \A r1, r2 \in 1..Len(runs) :
    r1 # r2 /\ runs[r1].project = runs[r2].project
    => ~(runs[r1].status = "running" /\ runs[r2].status = "running")

\* what a step may add to a connection's log: nothing unless the connection
\* is the registered one of its project and its stream is open, and then
\* exactly the messages the runs of that project emitted in this very step,
\* in their order; a new connection starts with an empty log
LiveForwardingOnly ==
  \A cid \in 1..Len(conns') :
    \A r \in RunIds :
      LET known == cid <= Len(conns)
          old == IF known THEN conns[cid].received[r] ELSE << >>
          new == conns'[cid].received[r]
          before == IF r <= Len(runs) THEN Len(runs[r].emitted) ELSE 0
          after == IF r <= Len(runs') THEN Len(runs'[r].emitted) ELSE 0
          live == /\ known
                  /\ activePipelines[conns[cid].project] = cid
                  /\ conns[cid].controller
                  /\ r <= Len(runs')
                  /\ runs'[r].project = conns[cid].project
      IN /\ Len(old) <= Len(new)
         /\ SubSeq(new, 1, Len(old)) = old
         /\ IF live
              THEN new = old \o [k \in 1..(after - before) |-> before + k]
              ELSE new = old
         /\ \A i, j \in 1..Len(new) : i < j => new[i] < new[j]

\* C10: messages a run emits while no observer is registered for its project
\* are dropped and never delivered later; an observer that connects or
\* reconnects receives only the messages emitted after its registration, in
\* emission order.
C10_NoReplay == [][LiveForwardingOnly]_vars

\* a first observer missed the first messages of a run, disconnected, and a
\* second one connected later: its log starts after a gap
C10_Witness ==
  \E r \in 1..Len(runs) : \E c1, c2 \in 1..Len(conns) :
    /\ conns[c1].received[r] # << >>
    /\ conns[c2].received[r] # << >>
    /\ conns[c1].received[r][1] > 1
    /\ conns[c2].received[r][1] > Last(conns[c1].received[r]) + 1
    /\ Len(conns[c2].received[r]) > 1

\* ------------------------------------------------- work without observers
\* the contexts the next continuation of run r can leave, computed from the
\* run's record and its workspace alone
WorkOutcomes(r) ==
  LET c == Ctx(r)
      s == runs[r].stage
      next == [c EXCEPT !.run.idx = @ + 1]
  IN { Throw(c, "backend failed") } \cup
     CASE s = "download" ->
            { DownloadDone(c) } \cup
            { Emit([c EXCEPT !.run.nat = @ + 1], EvNative("download", pct)) :
                pct \in IF runs[r].nat < MaxNative THEN NativePcts ELSE {} }
       [] s = "extract-audio" -> { AudioDone(c) }
       [] s = "transcribe" -> { TranscribeDone(c) }
       [] s = "detect-silence" -> { SilenceDone(c) }
       [] s = "analyze" -> { AnalyzeDone(c, clips) : clips \in HighlightResults }
       [] s = "extract-clips" ->
            { ExtractLoop([next EXCEPT !.run.results =
                 Append(@, [c.run.clips[c.run.idx + 1] EXCEPT
                              !.sourcePath = TRUE, !.status = "extracted"])]) }
       [] s = "render" ->
            { RenderLoop([next EXCEPT !.run.results =
                 Append(@, [c.run.clips[c.run.idx + 1] EXCEPT
                              !.renderedPath = TRUE, !.status = "rendered"])]) }
       [] s = "story-compose" ->
            { StoryLoop([next EXCEPT !.run.results =
                 Append(@, [storyClips(c.run.clips)[c.run.idx + 1] EXCEPT
                              !.storyPath = TRUE, !.status = "story-composed"])]) }
       [] OTHER -> {}

\* a step that touches a run or a workspace is a step of the pipeline, and
\* what it does to the runs and the workspaces is what the pipeline does when
\* no observer was ever connected
WorkIgnoresObservers ==
  runs' # runs \/ disk' # disk =>
    \/ /\ runs = << >>
       /\ \E p \in Projects, validUrl \in BOOLEAN :
            LET c == EnterDownload([run |-> NewRun(1, p), fs |-> disk[p]], validUrl)
            IN runs' = << Settled(c.run) >> /\ disk' = [disk EXCEPT ![p] = c.fs]
    \/ \E r \in 1..Len(runs) :
         /\ runs[r].status = "running"
         /\ \E c \in WorkOutcomes(r) :
              /\ runs' = [runs EXCEPT ![r] = Settled(c.run)]
              /\ disk' = [disk EXCEPT ![runs[r].project] = c.fs]

\* a running run can always take its next step, whatever the observers did
WorkNeverBlocked ==
  \A r \in 1..Len(runs) :
    runs[r].status = "running" =>
      /\ ENABLED BackendRejects(r)
      /\ CASE runs[r].stage = "download" -> ENABLED DownloadResolves(r)
           [] runs[r].stage = "extract-audio" -> ENABLED ExtractAudioResolves(r)
           [] runs[r].stage = "transcribe" -> ENABLED TranscribeResolves(r)
           [] runs[r].stage = "detect-silence" -> ENABLED DetectSilenceResolves(r)
           [] runs[r].stage = "analyze" ->
                \A clips \in HighlightResults : ENABLED AnalyzeResolves(r, clips)
           [] runs[r].stage = "extract-clips" -> ENABLED ExtractClipResolves(r)
           [] runs[r].stage = "render" -> ENABLED RenderClipResolves(r)
           [] runs[r].stage = "story-compose" -> ENABLED ComposeStoryResolves(r)

\* a run that returned called every stage that had work to do and left every
\* artifact in the workspace
WorkComplete ==
  \A r \in 1..Len(runs) :
    runs[r].status = "resolved" =>
      LET fs == disk[runs[r].project]
      IN /\ \A s \in {"download", "detect-silence", "analyze", "extract-clips", "render"} :
              Called(runs[r], s)
         /\ HasStoryMeta(runs[r].clips) => Called(runs[r], "story-compose")
         /\ fs.source.by = r /\ fs.metadata.by = r /\ fs.silence.by = r
         /\ fs.analysis.by = r /\ fs.analysis.clips = runs[r].clips
         /\ fileReady(fs.audio) /\ fileReady(fs.transcript)

\* C11: closing or disconnecting the observer at any point of a run stops only
\* delivery: under every interleaving of connects, disconnects and cancels
\* with the pipeline's steps, the run takes the steps, calls the stages and
\* writes the artifacts it takes, calls and writes with no observer involved.
C11_DisconnectKeepsWork ==
  /\ [](WorkNeverBlocked /\ WorkComplete)
  /\ [][WorkIgnoresObservers]_vars

\* an observer got the first messages of a run and disconnected before the
\* render stage; the run went on, composed a story and returned
C11_Witness ==
  \E r \in 1..Len(runs) : \E cid \in 1..Len(conns) :
    /\ runs[r].status = "resolved"
    /\ conns[cid].aborted
    /\ conns[cid].received[r] # << >>
    /\ runs[r].emitted[Last(conns[cid].received[r])].stepId
         \in {"download", "extract-audio", "transcribe"}
    /\ Called(runs[r], "story-compose")
    /\ disk[runs[r].project].analysis.by = r

\* =================================================================
\* composeStory (lib/story-composer), one invocation on its own
\* =================================================================
\* Durations are in hundredths of a second, the resolution of toFixed(2).
ACT1_TARGET_SEC == 4
ACT2_TARGET_SEC == 4
Hundredths == 100
Act2Cap == 8 * Hundredths       \* Math.min(8, ...)
HalfSecond == Hundredths \div 2 \* the + 0.5 of the act durations

\* narration lengths getDuration can report: 0 s .. MaxTtsHalfSec / 2 s
MaxTtsHalfSec == 24
TtsDurations == { HalfSecond * k : k \in 0..MaxTtsHalfSec }

\* the repository holds two composeStory: the one of lib/story-composer.ts
\* (narration by generateHook) and the one with the Qwen narration and the
\* silent fallback
Impls == { "story-composer", "qwen" }

Min(a, b) == IF a < b THEN a ELSE b
Max(a, b) == IF a > b THEN a ELSE b

\* Math.min(ACT1_TARGET_SEC, ttsDuration * 0.4)
HookDuration(ttsDuration) == Min(ACT1_TARGET_SEC * Hundredths, (2 * ttsDuration) \div 5)

\* an act 1 as long as its narration plus half a second, with no floor
Act1DurationNoFloor(hookDuration) == hookDuration + HalfSecond

\* Math.max(ACT1_TARGET_SEC, hookDuration + 0.5)
Act1Duration(hookDuration) ==
  Max(ACT1_TARGET_SEC * Hundredths, hookDuration + HalfSecond)

\* Math.max(ACT2_TARGET_SEC, contextDuration + 0.5), capped at 8 s in the
\* composeStory with the fallback
Act2Duration(impl, contextDuration) ==
  LET floored == Max(ACT2_TARGET_SEC * Hundredths, contextDuration + HalfSecond)
  IN IF impl = "qwen" THEN Min(Act2Cap, floored) ELSE floored

\* the intermediate files of one invocation, and its output
NarrationFiles == { "tts_combined.wav", "hook.wav", "context.wav" }
ActFiles == { "act1.mp4", "act2.mp4", "act3.mp4" }
FilterFiles == { "act1_filter.txt", "act2_filter.txt" }
tempFiles == NarrationFiles \cup ActFiles \cup { "concat.txt" }
StoryOutput == "story.mp4"

Unset == -1

\* a media command: ffmpeg writing out; dur: its -t option (Unset: none);
\* silent: its input is anullsrc; inputs: the files it reads
Ffmpeg(out, dur, silent, inputs) ==
  [out |-> out, dur |-> dur, silent |-> silent, inputs |-> inputs]

NewStoryCall(impl, storyMeta, rendered) ==
  [fn |-> "composeStory", impl |-> impl, storyMeta |-> storyMeta,
   rendered |-> rendered, pc |-> "entry", status |-> "running", err |-> "none",
   storyDir |-> FALSE, files |-> {}, cmds |-> << >>, synth |-> 0,
   ttsAvailable |-> FALSE, ttsFailed |-> FALSE, ttsDuration |-> Unset,
   hookDuration |-> Unset, contextDuration |-> Unset,
   act1Duration |-> Unset, act2Duration |-> Unset, result |-> "none"]

StoryAt(pc) ==
  call.fn = "composeStory" /\ call.status = "running" /\ call.pc = pc

StoryStep(next) ==
  /\ call' = next
  /\ UNCHANGED << activePipelines, conns, runs, disk >>

StoryThrow(c, message) == [c EXCEPT !.status = "thrown", !.err = message]

\* composeStory that starts the narration before it looks at storyMeta
ComposeStoryEntersLateCheck ==
  /\ StoryAt("entry")
  /\ LET c == [call EXCEPT !.storyDir = TRUE, !.synth = @ + 1]
     IN StoryStep(IF ~c.storyMeta
                    THEN StoryThrow(c, "no storyMeta")
                  ELSE IF ~c.rendered
                    THEN StoryThrow(c, "Rendered clip not found")
                  ELSE [c EXCEPT !.pc = "tts"])

\* mkdirSync(storyDir); the two checks; the narration request goes out
ComposeStoryEnters ==
  /\ StoryAt("entry")
  /\ LET c == [call EXCEPT !.storyDir = TRUE]
     IN StoryStep(IF ~c.storyMeta
                    THEN StoryThrow(c, "no storyMeta")
                  ELSE IF ~c.rendered
                    THEN StoryThrow(c, "Rendered clip not found")
                  ELSE [c EXCEPT !.pc = "tts", !.synth = @ + 1])

\* the narration arrived and was written; getDuration is asked for its length
TtsResolves ==
  /\ StoryAt("tts")
  /\ StoryStep([call EXCEPT !.files = @ \cup { "tts_combined.wav" },
                            !.ttsAvailable = TRUE, !.pc = "probe"])

\* the two silent tracks of the fallback
SilentTracks(c) ==
  LET hook == ACT1_TARGET_SEC * Hundredths
      context == ACT2_TARGET_SEC * Hundredths
  IN [c EXCEPT !.hookDuration = hook, !.contextDuration = context,
               !.cmds = @ \o << Ffmpeg("hook.wav", hook, TRUE, << >>),
                                Ffmpeg("context.wav", context, TRUE, << >>) >>,
               !.pc = "split"]

\* the narration request failed: caught, with silent tracks instead, in the
\* composeStory with the fallback; not caught in the other
TtsRejects ==
  /\ StoryAt("tts")
  /\ LET c == [call EXCEPT !.ttsFailed = TRUE]
     IN StoryStep(IF c.impl = "qwen"
                    THEN SilentTracks(c)
                    ELSE StoryThrow(c, "narration failed"))

\* getDuration answered: the narration is split at the hook's length
ProbeResolves(ttsDuration) ==
  /\ StoryAt("probe")
  /\ LET hook == HookDuration(ttsDuration)
     IN StoryStep([call EXCEPT
          !.ttsDuration = ttsDuration, !.hookDuration = hook,
          !.contextDuration = ttsDuration - hook,
          !.cmds = @ \o << Ffmpeg("hook.wav", hook, FALSE, << "tts_combined.wav" >>),
                           Ffmpeg("context.wav", Unset, FALSE, << "tts_combined.wav" >>) >>,
          !.pc = "split"])

\* both tracks are written; buildAct1 writes its filter file and runs ffmpeg
SplitResolves ==
  /\ StoryAt("split")
  /\ LET d == Act1Duration(call.hookDuration)
     IN StoryStep([call EXCEPT
          !.files = @ \cup { "hook.wav", "context.wav", "act1_filter.txt" },
          !.act1Duration = d,
          !.cmds = Append(@, Ffmpeg("act1.mp4", d, FALSE, << "hook.wav", "act1_filter.txt" >>)),
          !.pc = "act1"])

\* act 1 is written, its filter file deleted; buildAct2 does the same
Act1Resolves ==
  /\ StoryAt("act1")
  /\ LET d == Act2Duration(call.impl, call.contextDuration)
     IN StoryStep([call EXCEPT
          !.files = (@ \ { "act1_filter.txt" }) \cup { "act1.mp4", "act2_filter.txt" },
          !.act2Duration = d,
          !.cmds = Append(@, Ffmpeg("act2.mp4", d, FALSE, << "context.wav", "act2_filter.txt" >>)),
          !.pc = "act2"])

\* act 2 is written, its filter file deleted; buildAct3 runs ffmpeg
Act2Resolves ==
  /\ StoryAt("act2")
  /\ StoryStep([call EXCEPT
       !.files = (@ \ { "act2_filter.txt" }) \cup { "act2.mp4" },
       !.cmds = Append(@, Ffmpeg("act3.mp4", Unset, FALSE, << >>)),
       !.pc = "act3"])

\* act 3 is written; the concat list is written and ffmpeg concatenates
Act3Resolves ==
  /\ StoryAt("act3")
  /\ StoryStep([call EXCEPT
       !.files = @ \cup { "act3.mp4", "concat.txt" },
       !.cmds = Append(@, Ffmpeg(StoryOutput, Unset, FALSE,
                                 << "act1.mp4", "act2.mp4", "act3.mp4" >>)),
       !.pc = "concat"])

\* the story file is written; every tempFile is unlinked; outputPath returned
ConcatResolves ==
  /\ StoryAt("concat")
  /\ StoryStep([call EXCEPT
       !.files = (@ \cup { StoryOutput }) \ tempFiles,
       !.status = "returned", !.result = StoryOutput, !.pc = "done"])

\* the files the pending media commands write
PendingOutputs ==
  CASE call.pc = "split" -> { "hook.wav", "context.wav" }
    [] call.pc = "act1" -> { "act1.mp4" }
    [] call.pc = "act2" -> { "act2.mp4" }
    [] call.pc = "act3" -> { "act3.mp4" }
    [] call.pc = "concat" -> { StoryOutput }
    [] OTHER -> {}

\* getDuration or a media command fails: composeStory rejects there; the
\* failed command, or its sibling in Promise.all, may have left its output
MediaRejects(left) ==
  /\ call.fn = "composeStory" /\ call.status = "running"
  /\ call.pc \in { "probe", "split", "act1", "act2", "act3", "concat" }
  /\ left \subseteq PendingOutputs
  /\ StoryStep(StoryThrow([call EXCEPT !.files = @ \cup left], "media command failed"))

InitStory ==
  /\ activePipelines = [p \in Projects |-> 0]
  /\ conns = << >>
  /\ runs = << >>
  /\ disk = [p \in Projects |-> EmptyDisk]
  /\ call \in { NewStoryCall(impl, storyMeta, rendered) :
                  impl \in Impls, storyMeta \in BOOLEAN, rendered \in BOOLEAN }

NextStory ==
  \/ ComposeStoryEnters
  \/ TtsResolves
  \/ TtsRejects
  \/ \E ttsDuration \in TtsDurations : ProbeResolves(ttsDuration)
  \/ SplitResolves
  \/ Act1Resolves
  \/ Act2Resolves
  \/ Act3Resolves
  \/ ConcatResolves
  \/ \E left \in SUBSET (NarrationFiles \cup ActFiles \cup { StoryOutput }) :
       MediaRejects(left)

\* one composeStory invocation, from its call to its return or throw
SpecStory == InitStory /\ [][NextStory]_vars

\* the files the media commands issued so far write, in order
CmdOutputs == [i \in 1..Len(call.cmds) |-> call.cmds[i].out]

\* C12: when narration synthesis throws, composeStory does not fail: the hook
\* and context audio are silent tracks of 4 s and 4 s, Acts 1, 2 and 3 are
\* still built and concatenated in that order, and the story path is returned.
C12_SilentFallback ==
  call.fn = "composeStory" /\ call.ttsFailed =>
    /\ call.err # "narration failed"
    /\ Len(call.cmds) >= 2
    /\ call.cmds[1] = Ffmpeg("hook.wav", ACT1_TARGET_SEC * Hundredths, TRUE, << >>)
    /\ call.cmds[2] = Ffmpeg("context.wav", ACT2_TARGET_SEC * Hundredths, TRUE, << >>)
    /\ call.status = "returned" =>
         /\ CmdOutputs = << "hook.wav", "context.wav", "act1.mp4", "act2.mp4",
                            "act3.mp4", StoryOutput >>
         /\ Last(call.cmds).inputs = << "act1.mp4", "act2.mp4", "act3.mp4" >>
         /\ call.result = StoryOutput
         /\ StoryOutput \in call.files

\* C13: composeStory on a clip without storyMeta fails with the missing-story-
\* metadata error before any narration synthesis or media command is issued,
\* and neither the story file nor any intermediate file is created.
C13_MissingMetaFailsFirst ==
  call.fn = "composeStory" /\ ~call.storyMeta =>
    /\ call.synth = 0
    /\ call.cmds = << >>
    /\ call.files = {}
    /\ call.status # "returned"
    /\ call.pc = "entry"
    /\ call.status = "thrown" => call.err = "no storyMeta"

\* composeStory threw on a clip with neither story metadata nor a rendered file
C13_Witness ==
  /\ call.fn = "composeStory"
  /\ ~call.storyMeta /\ ~call.rendered
  /\ call.status = "thrown"
  /\ call.storyDir

\* C14: every temporary file created during an invocation (narration, split
\* tracks, per-act files, act filter descriptors, concat manifest) no longer
\* exists when the invocation ends, by returning or by throwing.
C14_TempFilesGone ==
  call.fn = "composeStory" /\ call.status # "running" =>
    call.files \cap (tempFiles \cup FilterFiles) = {}

\* the act durations are computed when the acts are built, and the duration
\* handed to ffmpeg is the computed one
ActDurationsUsed ==
  /\ call.pc \in { "act1", "act2", "act3", "concat", "done" } =>
       /\ call.act1Duration # Unset
       /\ \E i \in 1..Len(call.cmds) :
            call.cmds[i].out = "act1.mp4" /\ call.cmds[i].dur = call.act1Duration
  /\ call.pc \in { "act2", "act3", "concat", "done" } =>
       /\ call.act2Duration # Unset
       /\ \E i \in 1..Len(call.cmds) :
            call.cmds[i].out = "act2.mp4" /\ call.cmds[i].dur = call.act2Duration

\* C15: for every narration duration d >= 0, and in the silent-fallback path,
\* the Act 1 duration and the Act 2 duration are never below their 4 s target.
C15_ActDurationsFloor ==
  call.fn = "composeStory" =>
    /\ ActDurationsUsed
    /\ call.act1Duration # Unset => call.act1Duration >= ACT1_TARGET_SEC * Hundredths
    /\ call.act2Duration # Unset => call.act2Duration >= ACT2_TARGET_SEC * Hundredths

\* a story was composed from a narration of 1 s: both floors bind
C15_Witness ==
  /\ call.fn = "composeStory"
  /\ call.status = "returned"
  /\ call.ttsDuration = Hundredths
  /\ call.hookDuration + HalfSecond < ACT1_TARGET_SEC * Hundredths
  /\ call.contextDuration + HalfSecond < ACT2_TARGET_SEC * Hundredths
  /\ call.act1Duration = ACT1_TARGET_SEC * Hundredths
  /\ call.act2Duration = ACT2_TARGET_SEC * Hundredths

\* =================================================================
\* getActiveSegments (lib/silence-detect), times in milliseconds
\* =================================================================
DefaultMinGapToRemove == 800    \* minGapToRemove: number = 0.8

\* the inputs: times on a grid of half the default threshold, so that gaps
\* below, at and above the threshold occur
MaxTicks == 5
MaxGaps == 3
GridStep == DefaultMinGapToRemove \div 2
GridTimes == { GridStep * k : k \in 0..MaxTicks }
MinGaps == { DefaultMinGapToRemove, 3 * GridStep }

SilenceGap(start, end) == [start |-> start, end |-> end, duration |-> end - start]

GridGaps ==
  { SilenceGap(p[1], p[2]) : p \in { q \in GridTimes \X GridTimes : q[1] < q[2] } }

\* gap lists sorted by start and non-overlapping, as parseSilenceOutput
\* returns them for one audio track
GapLists ==
  { s \in UNION { [1..n -> GridGaps] : n \in 0..MaxGaps } :
      \A i \in 1..(Len(s) - 1) : s[i].end <= s[i + 1].start }

\* a filter that takes every gap long enough, wherever it lies
relevantGapsAnywhere(startSec, endSec, silenceGaps, minGapToRemove) ==
  SelectSeq(silenceGaps, LAMBDA g : g.duration >= minGapToRemove)

relevantGaps(startSec, endSec, silenceGaps, minGapToRemove) ==
  SelectSeq(silenceGaps, LAMBDA g : /\ g.start >= startSec
                                    /\ g.end <= endSec
                                    /\ g.duration >= minGapToRemove)

\* the for loop: << cursor, segments >> after the gaps
RECURSIVE SweepGaps(_, _, _)
SweepGaps(gaps, cursor, segments) ==
  IF gaps = << >>
    THEN << cursor, segments >>
    ELSE LET gap == Head(gaps)
         IN SweepGaps(Tail(gaps), gap.end,
                      IF gap.start > cursor
                        THEN Append(segments, [start |-> cursor, end |-> gap.start])
                        ELSE segments)

getActiveSegments(startSec, endSec, silenceGaps, minGapToRemove) ==
  LET relevant == relevantGaps(startSec, endSec, silenceGaps, minGapToRemove)
  IN IF Len(relevant) = 0
       THEN << [start |-> startSec, end |-> endSec] >>
       ELSE LET swept == SweepGaps(relevant, startSec, << >>)
                cursor == swept[1]
                segments == swept[2]
            IN IF cursor < endSec
                 THEN Append(segments, [start |-> cursor, end |-> endSec])
                 ELSE segments

NewSegmentsCall(startSec, endSec, silenceGaps, minGapToRemove) ==
  [fn |-> "getActiveSegments", startSec |-> startSec, endSec |-> endSec,
   silenceGaps |-> silenceGaps, minGapToRemove |-> minGapToRemove,
   pc |-> "called", result |-> << >>]

\* gaps [{12.0, 14.5, 2.5}], clip window [10, 20], threshold 0.8
ScenarioCall ==
  NewSegmentsCall(10000, 20000, << SilenceGap(12000, 14500) >>, DefaultMinGapToRemove)

GetActiveSegmentsReturns ==
  /\ call.fn = "getActiveSegments" /\ call.pc = "called"
  /\ call' = [call EXCEPT !.pc = "returned",
                          !.result = getActiveSegments(call.startSec, call.endSec,
                                       call.silenceGaps, call.minGapToRemove)]
  /\ UNCHANGED << activePipelines, conns, runs, disk >>

InitSegments ==
  /\ activePipelines = [p \in Projects |-> 0]
  /\ conns = << >>
  /\ runs = << >>
  /\ disk = [p \in Projects |-> EmptyDisk]
  /\ call \in { ScenarioCall } \cup
              { NewSegmentsCall(a, b, gaps, min) :
                  a \in GridTimes, b \in GridTimes, gaps \in GapLists, min \in MinGaps }
  /\ call.startSec < call.endSec

NextSegments == GetActiveSegmentsReturns

\* getActiveSegments applied to one window and one gap list
SpecSegments == InitSegments /\ [][NextSegments]_vars

\* the gaps of the call that qualify for removal
Qualifying ==
  { i \in 1..Len(call.silenceGaps) :
      /\ call.silenceGaps[i].start >= call.startSec
      /\ call.silenceGaps[i].end <= call.endSec
      /\ call.silenceGaps[i].duration >= call.minGapToRemove }

\* every time at which the window, a gap or a returned span begins or ends
Marks ==
  { call.startSec, call.endSec }
    \cup { call.silenceGaps[i].start : i \in 1..Len(call.silenceGaps) }
    \cup { call.silenceGaps[i].end : i \in 1..Len(call.silenceGaps) }
    \cup { call.result[i].start : i \in 1..Len(call.result) }
    \cup { call.result[i].end : i \in 1..Len(call.result) }

\* the pieces of the window between two neighbouring marks
Pieces ==
  { p \in Marks \X Marks :
      /\ call.startSec <= p[1] /\ p[1] < p[2] /\ p[2] <= call.endSec
      /\ ~ \E m \in Marks : p[1] < m /\ m < p[2] }

InRemovedGap(p) ==
  \E i \in Qualifying :
    call.silenceGaps[i].start <= p[1] /\ p[2] <= call.silenceGaps[i].end

InSpan(p) ==
  \E i \in 1..Len(call.result) :
    call.result[i].start <= p[1] /\ p[2] <= call.result[i].end

\* the returned spans are non-empty, lie in the window, ascend and are
\* separated by a removed gap; every piece of the window is in a removed gap
\* or in a span, never in both
SpansAreTheRest ==
  /\ \A i \in 1..Len(call.result) :
       /\ call.result[i].start < call.result[i].end
       /\ call.startSec <= call.result[i].start
       /\ call.result[i].end <= call.endSec
  /\ \A i \in 1..(Len(call.result) - 1) :
       call.result[i].end < call.result[i + 1].start
  /\ \A p \in Pieces : InRemovedGap(p) # InSpan(p)

\* C16: for every sorted non-overlapping gap list and every window with
\* startSec < endSec, getActiveSegments returns, in ascending order, exactly
\* the non-empty intervals that remain of the window after removing the
\* qualifying gaps; a gap crossing a window edge or shorter than the threshold
\* is not removed; no qualifying gap yields the single span of the window;
\* gaps [{12,14.5,2.5}], window [10,20], threshold 0.8 yield [{10,12},{14.5,20}].
C16_ActiveSegments ==
  call.fn = "getActiveSegments" /\ call.pc = "returned" =>
    /\ SpansAreTheRest
    /\ Qualifying = {} =>
         call.result = << [start |-> call.startSec, end |-> call.endSec] >>
    /\ [call EXCEPT !.pc = "called", !.result = << >>] = ScenarioCall =>
         call.result = << [start |-> 10000, end |-> 12000],
                          [start |-> 14500, end |-> 20000] >>

\* a window with a removed gap inside, a gap crossing its end and two spans
C16_Witness ==
  /\ call.fn = "getActiveSegments" /\ call.pc = "returned"
  /\ Len(call.result) = 2
  /\ Qualifying # {}
  /\ \E i \in 1..Len(call.silenceGaps) :
       /\ call.silenceGaps[i].start < call.endSec
       /\ call.silenceGaps[i].end > call.endSec
       /\ call.silenceGaps[i].duration >= call.minGapToRemove

\* =================================================================
\* extractClip (lib/clip-extractor) followed by renderClip
\* (lib/template-renderer), times in milliseconds
\* =================================================================
\* a frame at the 30 frames per second the renderer's outputs are forced to
FramesPerSecond == 30
FrameInterval == 1000 \div FramesPerSecond

\* pc: the pending await; segments: what getActiveSegments returned;
\* cuts: the lengths of the per-segment files cut so far; sourceLength: the
\* length of the extracted file (Unset: not written); renderedLength: the
\* length of the rendered file
NewRenderCall(startSec, endSec, silenceGaps) ==
  [fn |-> "extractClip+renderClip", startSec |-> startSec, endSec |-> endSec,
   silenceGaps |-> silenceGaps, pc |-> "entry", segments |-> << >>,
   cuts |-> << >>, sourceLength |-> Unset, renderedLength |-> Unset]

RenderAt(pc) == call.fn = "extractClip+renderClip" /\ call.pc = pc

RenderStep(next) ==
  /\ call' = next
  /\ UNCHANGED << activePipelines, conns, runs, disk >>

RECURSIVE SumSeq(_)
SumSeq(s) == IF s = << >> THEN 0 ELSE Head(s) + SumSeq(Tail(s))

\* extractClip up to its first cutSegment
ExtractClipEnters ==
  /\ RenderAt("entry")
  /\ IF Len(call.silenceGaps) = 0
       THEN RenderStep([call EXCEPT !.pc = "cutWindow"])
       ELSE LET segments == getActiveSegments(call.startSec, call.endSec,
                                              call.silenceGaps, DefaultMinGapToRemove)
            IN RenderStep([call EXCEPT !.segments = segments,
                             !.pc = IF Len(segments) <= 1 THEN "cutWindow"
                                    ELSE "cutSegment"])

\* cutSegment(source, outputPath, clip.startSec, clip.endSec) is done;
\* extractClip returns and renderClip starts ffmpeg
CutWindowResolves ==
  /\ RenderAt("cutWindow")
  /\ RenderStep([call EXCEPT !.sourceLength = call.endSec - call.startSec,
                             !.pc = "render"])

\* cutSegment of segment number Len(cuts) + 1 is done; the next one starts,
\* or the concat list is written and ffmpeg concatenates
CutSegmentResolves ==
  /\ RenderAt("cutSegment")
  /\ LET seg == call.segments[Len(call.cuts) + 1]
         cuts == Append(call.cuts, seg.end - seg.start)
     IN RenderStep([call EXCEPT !.cuts = cuts,
                      !.pc = IF Len(cuts) < Len(call.segments) THEN "cutSegment"
                             ELSE "concat"])

\* the per-segment files are concatenated (stream copy); extractClip returns
\* and renderClip starts ffmpeg
SegmentsConcatResolve ==
  /\ RenderAt("concat")
  /\ RenderStep([call EXCEPT !.sourceLength = SumSeq(call.cuts), !.pc = "render"])

\* ffmpeg -i sourcePath ... -t clipDuration: the output ends with the input or
\* after clipDuration, whichever comes first
RenderClipReturns ==
  /\ RenderAt("render")
  /\ LET clipDuration == call.endSec - call.startSec
     IN RenderStep([call EXCEPT !.renderedLength = Min(call.sourceLength, clipDuration),
                                !.pc = "done"])

InitRender ==
  /\ activePipelines = [p \in Projects |-> 0]
  /\ conns = << >>
  /\ runs = << >>
  /\ disk = [p \in Projects |-> EmptyDisk]
  /\ call \in { NewRenderCall(a, b, gaps) :
                  a \in GridTimes, b \in GridTimes, gaps \in GapLists }
  /\ call.startSec < call.endSec

NextRender ==
  \/ ExtractClipEnters
  \/ CutWindowResolves
  \/ CutSegmentResolves
  \/ SegmentsConcatResolve
  \/ RenderClipReturns

\* one clip through extractClip and then renderClip
SpecRender == InitRender /\ [][NextRender]_vars

\* C17: a clip that goes through extraction and then the Template Renderer
\* yields a rendered file whose duration equals endSec - startSec within one
\* frame, for every clip and every gap list, also when extraction removed
\* qualifying silence gaps from the window.
C17_RenderedDuration ==
  RenderAt("done") =>
    /\ call.renderedLength - (call.endSec - call.startSec) <= FrameInterval
    /\ (call.endSec - call.startSec) - call.renderedLength <= FrameInterval

\* =================================================================
\* analyzeHighlights (lib/ai-analyze): the AI's items become Clips
\* =================================================================
MaxItems == 2

\* viral_score values the AI can return (a number, by HighlightResult)
Scores == { -3, 1, 7, 10, 15 }

EmotionalArcs == { "triumph", "surprise", "heartbreak", "humor", "tension" }

\* emotional_arc as it arrives: one of the five, missing ("undefined") or a
\* word of the AI's own
RawArcs == EmotionalArcs \cup { "undefined", "joy" }

\* story_meta of an item: present with an arc, or not present
RawStoryMetas ==
  { [present |-> FALSE, emotional_arc |-> "undefined"] } \cup
  { [present |-> TRUE, emotional_arc |-> arc] : arc \in RawArcs }

\* the items of HighlightResult.clips: two windows, so that two items can
\* carry the same start_sec / end_sec
RawItems ==
  [start_sec : { 30 }, end_sec : { 60, 90 }, viral_score : Scores,
   story_meta : RawStoryMetas]

RawResults == UNION { [1..n -> RawItems] : n \in 0..MaxItems }

\* a clamp that only cuts at the top
ClampScoreTopOnly(viral_score) == Min(10, viral_score)

\* Math.min(10, Math.max(1, c.viral_score))
ClampScore(viral_score) == Min(10, Max(1, viral_score))

\* ids numbered from 0
ClipIdFromZero(projectId, i) == << projectId, "-clip-", i - 1 >>

\* `${projectId}-clip-${i + 1}`, i + 1 being the 1-based position
ClipId(projectId, i) == << projectId, "-clip-", i >>

\* c.story_meta.emotional_arc || 'surprise'
ArcOrDefault(emotional_arc) ==
  IF emotional_arc = "undefined" THEN "surprise" ELSE emotional_arc

\* the Clip made of item c at 1-based position i
ClipOfItem(projectId, c, i) ==
  [id |-> ClipId(projectId, i), projectId |-> projectId,
   startSec |-> c.start_sec, endSec |-> c.end_sec,
   viralScore |-> ClampScore(c.viral_score),
   templateId |-> "sandpaper", status |-> "pending",
   storyMeta |-> IF c.story_meta.present
                   THEN [present |-> TRUE,
                         emotionalArc |-> ArcOrDefault(c.story_meta.emotional_arc)]
                   ELSE [present |-> FALSE, emotionalArc |-> "undefined"]]

\* result.clips.map((c, i) => ...)
ClipsOfResult(projectId, items) ==
  [i \in 1..Len(items) |-> ClipOfItem(projectId, items[i], i)]

NewAnalyzeCall(projectId, items) ==
  [fn |-> "analyzeHighlights", projectId |-> projectId, items |-> items,
   pc |-> "awaiting", result |-> << >>]

\* the AI answered with items: they are converted and returned
AnalyzeHighlightsReturns ==
  /\ call.fn = "analyzeHighlights" /\ call.pc = "awaiting"
  /\ call' = [call EXCEPT !.pc = "returned",
                          !.result = ClipsOfResult(call.projectId, call.items)]
  /\ UNCHANGED << activePipelines, conns, runs, disk >>

InitAnalyze ==
  /\ activePipelines = [p \in Projects |-> 0]
  /\ conns = << >>
  /\ runs = << >>
  /\ disk = [p \in Projects |-> EmptyDisk]
  /\ call \in { NewAnalyzeCall(p, items) : p \in Projects, items \in RawResults }

NextAnalyze == AnalyzeHighlightsReturns

\* analyzeHighlights from the AI's answer to its return value
SpecAnalyze == InitAnalyze /\ [][NextAnalyze]_vars

AnalyzeReturned == call.fn = "analyzeHighlights" /\ call.pc = "returned"

\* C18: every Clip analyzeHighlights returns has viralScore within [1,10]
\* whatever score the AI returned: below 1 becomes 1, above 10 becomes 10, a
\* score in [1,10] is unchanged.
C18_ViralScoreClamped ==
  AnalyzeReturned =>
    \A i \in 1..Len(call.result) :
      LET score == call.items[i].viral_score
          clamped == call.result[i].viralScore
      IN /\ 1 <= clamped /\ clamped <= 10
         /\ score < 1 => clamped = 1
         /\ score > 10 => clamped = 10
         /\ 1 <= score /\ score <= 10 => clamped = score

\* the AI returned -3 and 15: the clips carry 1 and 10
C18_Witness ==
  /\ AnalyzeReturned
  /\ Len(call.result) = 2
  /\ call.items[1].viral_score = -3 /\ call.result[1].viralScore = 1
  /\ call.items[2].viral_score = 15 /\ call.result[2].viralScore = 10

\* C19: the i-th item (1-based) becomes exactly one Clip with id
\* `${projectId}-clip-${i}`, status pending and the default templateId, in the
\* AI's order; as many clips as items, ids pairwise distinct, and two items
\* with the same start_sec/end_sec both become clips.
C19_OneClipPerItem ==
  AnalyzeReturned =>
    /\ Len(call.result) = Len(call.items)
    /\ \A i \in 1..Len(call.result) :
         /\ call.result[i].id = << call.projectId, "-clip-", i >>
         /\ call.result[i].status = "pending"
         /\ call.result[i].templateId = "sandpaper"
         /\ call.result[i].projectId = call.projectId
         /\ call.result[i].startSec = call.items[i].start_sec
         /\ call.result[i].endSec = call.items[i].end_sec
    /\ \A i, j \in 1..Len(call.result) :
         i # j => call.result[i].id # call.result[j].id

\* two items with the same window, score and story became two clips
C19_Witness ==
  /\ AnalyzeReturned
  /\ Len(call.result) = 2
  /\ call.items[1] = call.items[2]
  /\ call.result[1].startSec = call.result[2].startSec
  /\ call.result[1].endSec = call.result[2].endSec
  /\ call.result[1].id # call.result[2].id

\* C20: every Clip returned with story metadata has emotionalArc among
\* triumph, surprise, heartbreak, humor, tension: when the AI's arc is absent
\* or outside that set, the clip's arc is surprise.
C20_ArcDefaults ==
  AnalyzeReturned =>
    \A i \in 1..Len(call.result) :
      call.result[i].storyMeta.present =>
        /\ call.result[i].storyMeta.emotionalArc \in EmotionalArcs
        /\ call.items[i].story_meta.emotional_arc \notin EmotionalArcs =>
             call.result[i].storyMeta.emotionalArc = "surprise"

\* =================================================================
\* Subtitles (lib/subtitles): smartSplit, distributeWordsToLines, generateAss
\* A string is the sequence of its characters.
\* =================================================================
MaxTextLen == 6
MaxWidth == 3

\* no pipeline, no observer: the state around a call of a single function
NoPipeline ==
  /\ activePipelines = [p \in Projects |-> 0]
  /\ conns = << >>
  /\ runs = << >>
  /\ disk = [p \in Projects |-> EmptyDisk]

\* the characters of a text: a letter, a blank and the punctuation smartSplit
\* looks for
Chars == { "a", " ", ".", "!", "," }

Texts == UNION { [1..n -> Chars] : n \in 0..MaxTextLen }

\* maxCharsPerLine of the caption style
Widths == 1..MaxWidth

\* ['. ', '! ', '? ', ', ', ' '], in the order smartSplit tries them
Separators == << << ".", " " >>, << "!", " " >>, << "?", " " >>, << ",", " " >>, << " " >> >>

\* s.slice(from, to), 0-based, to excluded
slice(s, from, to) == SubSeq(s, from + 1, Min(to, Len(s)))

\* s.trim()
trim(s) ==
  LET solid == { i \in 1..Len(s) : s[i] # " " }
  IN IF solid = {} THEN << >>
     ELSE SubSeq(s, CHOOSE i \in solid : \A j \in solid : i <= j,
                    CHOOSE i \in solid : \A j \in solid : i >= j)

\* sep occurs in s at 0-based index idx
OccursAt(s, sep, idx) ==
  /\ idx + Len(sep) <= Len(s)
  /\ SubSeq(s, idx + 1, idx + Len(sep)) = sep

\* s.lastIndexOf(sep, fromIndex): the last occurrence starting at or before
\* fromIndex, -1 when there is none
lastIndexOf(s, sep, fromIndex) ==
  LET hits == { idx \in 0..Min(fromIndex, Len(s)) : OccursAt(s, sep, idx) }
  IN IF hits = {} THEN -1 ELSE CHOOSE idx \in hits : \A other \in hits : idx >= other

\* idx > maxChars * 0.3
PastThreshold(idx, maxChars) == 10 * idx > 3 * maxChars

\* the for loop over the separators from the k-th on: the first separator
\* whose last occurrence lies past the threshold gives the break, else -1
RECURSIVE TrySeparators(_, _, _)
TrySeparators(remaining, maxChars, k) ==
  IF k > Len(Separators) THEN -1
  ELSE LET sep == Separators[k]
           idx == lastIndexOf(remaining, sep, maxChars)
       IN IF PastThreshold(idx, maxChars)
            THEN idx + (IF sep = << " " >> THEN 0 ELSE Len(sep) - 1)
            ELSE TrySeparators(remaining, maxChars, k + 1)

\* breakIdx of one iteration of the while loop
BreakIdx(remaining, maxChars) ==
  LET breakIdx == TrySeparators(remaining, maxChars, 1)
  IN IF breakIdx <= 0 THEN maxChars ELSE breakIdx

NewSplitCall(text, maxChars) ==
  [fn |-> "smartSplit", text |-> text, maxChars |-> maxChars, pc |-> "called",
   remaining |-> text, lines |-> << >>, breaks |-> << >>]

SplitAt(pc) == call.fn = "smartSplit" /\ call.pc = pc

\* if (text.length <= maxChars) return [text]
SmartSplitShort ==
  /\ SplitAt("called")
  /\ Len(call.text) <= call.maxChars
  /\ call' = [call EXCEPT !.pc = "returned", !.lines = << call.text >>]
  /\ UNCHANGED << activePipelines, conns, runs, disk >>

\* the text is longer than a line: the loop is entered
SmartSplitLong ==
  /\ SplitAt("called")
  /\ Len(call.text) > call.maxChars
  /\ call' = [call EXCEPT !.pc = "while"]
  /\ UNCHANGED << activePipelines, conns, runs, disk >>

\* one iteration of while (remaining.length > maxChars)
SmartSplitBreaks ==
  /\ SplitAt("while")
  /\ Len(call.remaining) > call.maxChars
  /\ \E breakIdx \in { BreakIdx(call.remaining, call.maxChars) } :
       call' = [call EXCEPT
         !.lines = Append(@, trim(slice(call.remaining, 0, breakIdx))),
         !.remaining = trim(slice(call.remaining, breakIdx, Len(call.remaining))),
         !.breaks = Append(@, [remaining |-> call.remaining, breakIdx |-> breakIdx])]
  /\ UNCHANGED << activePipelines, conns, runs, disk >>

\* the loop ends: if (remaining) lines.push(remaining); return lines
SmartSplitReturns ==
  /\ SplitAt("while")
  /\ Len(call.remaining) <= call.maxChars
  /\ call' = [call EXCEPT
       !.pc = "returned",
       !.lines = IF call.remaining # << >> THEN Append(@, call.remaining) ELSE @]
  /\ UNCHANGED << activePipelines, conns, runs, disk >>

InitSmartSplit ==
  /\ NoPipeline
  /\ call \in { NewSplitCall(text, maxChars) : text \in Texts, maxChars \in Widths }

NextSmartSplit ==
  \/ SmartSplitShort
  \/ SmartSplitLong
  \/ SmartSplitBreaks
  \/ SmartSplitReturns

\* smartSplit from its call to its return
SpecSmartSplit == InitSmartSplit /\ [][NextSmartSplit]_vars

SplitReturned == SplitAt("returned")

\* the characters of s that are not blanks, in order
Solid(s) == SelectSeq(s, LAMBDA ch : ch # " ")

RECURSIVE Joined(_)
Joined(lines) == IF lines = << >> THEN << >> ELSE Head(lines) \o Joined(Tail(lines))

\* the three kinds of break point, best first
BreakTiers == << { << ".", " " >>, << "!", " " >>, << "?", " " >> },
                 { << ",", " " >> },
                 { << " " >> } >>

\* where a separator of the tier starts, at or before maxChars and after
\* 30% of it
EligibleIn(tier, remaining, maxChars) ==
  { idx \in 0..maxChars :
      /\ PastThreshold(idx, maxChars)
      /\ \E sep \in BreakTiers[tier] : OccursAt(remaining, sep, idx) }

\* the break the rule asks for: the last eligible separator of the best tier
\* that has one (punctuation stays on the line), else the hard cut
RuleBreak(remaining, maxChars) ==
  LET tiers == { k \in 1..Len(BreakTiers) : EligibleIn(k, remaining, maxChars) # {} }
  IN IF tiers = {} THEN maxChars
     ELSE LET best == CHOOSE k \in tiers : \A other \in tiers : k <= other
              at == CHOOSE idx \in EligibleIn(best, remaining, maxChars) :
                      \A other \in EligibleIn(best, remaining, maxChars) : idx >= other
          IN IF best = Len(BreakTiers) THEN at ELSE at + 1

SplitWidthKept ==
  SplitReturned => \A i \in 1..Len(call.lines) : Len(call.lines[i]) <= call.maxChars

SplitBreakRule ==
  call.fn = "smartSplit" =>
    \A i \in 1..Len(call.breaks) :
      call.breaks[i].breakIdx = RuleBreak(call.breaks[i].remaining, call.maxChars)

SplitContentKept ==
  SplitReturned => Solid(Joined(call.lines)) = Solid(call.text)

\* every iteration shortens what remains, so the loop ends
SplitShrinks ==
  (SplitAt("while") /\ call'.pc = "while") => Len(call'.remaining) < Len(call.remaining)

\* C30: for every text and every maxCharsPerLine >= 1 smartSplit terminates,
\* every returned line has at most maxCharsPerLine characters, each break is
\* at the last eligible separator (sentence punctuation before comma before
\* space) after 30% of maxCharsPerLine and otherwise a hard cut at
\* maxCharsPerLine, and the lines in order hold all non-blank characters of
\* the text in their order.
C30_SmartSplit ==
  /\ [](SplitWidthKept /\ SplitBreakRule /\ SplitContentKept)
  /\ [][SplitShrinks]_vars

\* -----------------------------------------------------------------
\* distributeWordsToLines
\* -----------------------------------------------------------------
MaxWords == 4
MaxWordLen == 4

\* a word as the transcription parsers leave it: trimmed and not empty
WordTexts == UNION { [1..n -> { "a" }] : n \in 1..MaxWordLen }

\* TranscriptWord; the i-th word of a segment is spoken from 2i to 2i + 1
TranscriptWord(word, i) == [word |-> word, start |-> 2 * i, end |-> 2 * i + 1]

WordLists ==
  UNION { { [i \in 1..n |-> TranscriptWord(ws[i], i)] : ws \in [1..n -> WordTexts] } :
          n \in 0..MaxWords }

\* maxCharsPerLine for word lines: up to two short words with room to spare
LineWidths == 1..(MaxWidth + 2)

\* the flush test with >= in place of >
OverflowsAtWidth(candidate, maxChars) == Len(candidate) >= maxChars

\* candidate.length > maxChars
Overflows(candidate, maxChars) == Len(candidate) > maxChars

\* the for loop from the i-th word (1-based) on, then the flush of the last
\* line
RECURSIVE DistributeFrom(_, _, _, _, _, _)
DistributeFrom(words, maxChars, i, currentLine, lineStart, lines) ==
  IF i > Len(words)
    THEN IF trim(currentLine) # << >>
           THEN Append(lines, [text |-> trim(currentLine), start |-> lineStart,
                               end |-> IF words # << >> THEN words[Len(words)].end
                                       ELSE lineStart + 1])
           ELSE lines
    ELSE LET word == words[i]
             candidate == IF currentLine # << >>
                            THEN currentLine \o << " " >> \o word.word
                            ELSE word.word
         IN IF Overflows(candidate, maxChars) /\ currentLine # << >>
              THEN DistributeFrom(words, maxChars, i + 1, word.word, word.start,
                     Append(lines, [text |-> trim(currentLine), start |-> lineStart,
                                    end |-> IF i > 1 THEN words[i - 1].end
                                            ELSE word.start]))
              ELSE DistributeFrom(words, maxChars, i + 1, candidate, lineStart, lines)

distributeWordsToLines(words, maxChars) ==
  DistributeFrom(words, maxChars, 1, << >>,
                 IF words # << >> THEN words[1].start ELSE 0, << >>)

NewWordLinesCall(words, maxChars) ==
  [fn |-> "distributeWordsToLines", words |-> words, maxChars |-> maxChars,
   pc |-> "called", lines |-> << >>]

DistributeWordsToLinesReturns ==
  /\ call.fn = "distributeWordsToLines" /\ call.pc = "called"
  /\ call' = [call EXCEPT !.pc = "returned",
                          !.lines = distributeWordsToLines(call.words, call.maxChars)]
  /\ UNCHANGED << activePipelines, conns, runs, disk >>

InitWordLines ==
  /\ NoPipeline
  /\ call \in { NewWordLinesCall(words, maxChars) :
                  words \in WordLists, maxChars \in LineWidths }

NextWordLines == DistributeWordsToLinesReturns

\* distributeWordsToLines from its call to its return
SpecWordLines == InitWordLines /\ [][NextWordLines]_vars

WordLinesReturned == call.fn = "distributeWordsToLines" /\ call.pc = "returned"

\* the number of words a line's text holds: its blanks plus one
WordsIn(text) == Len(SelectSeq(text, LAMBDA ch : ch = " ")) + 1

\* the position in the word list of the first word of line k, when every
\* line before it holds the words its text shows
RECURSIVE FirstWordOf(_, _)
FirstWordOf(lines, k) ==
  IF k = 1 THEN 1 ELSE FirstWordOf(lines, k - 1) + WordsIn(lines[k - 1].text)

LastWordOf(lines, k) == FirstWordOf(lines, k) + WordsIn(lines[k].text) - 1

\* the words from first to last with one blank between them
RECURSIVE Spaced(_, _, _)
Spaced(words, first, last) ==
  IF first > last THEN << >>
  ELSE IF first = last THEN words[first].word
  ELSE words[first].word \o << " " >> \o Spaced(words, first + 1, last)

\* C26: with word-level timing distributeWordsToLines packs the words
\* greedily: every word is in exactly one line, in order; a line is flushed
\* exactly when appending the next word with a blank would exceed
\* maxCharsPerLine; every line of two or more words has length <=
\* maxCharsPerLine; each line's interval is [start of its first word, end of
\* its last word].
C26_GreedyWordLines ==
  WordLinesReturned =>
    LET words == call.words
        lines == call.lines
        n == Len(lines)
    IN /\ (words = << >>) = (lines = << >>)
       /\ n > 0 => LastWordOf(lines, n) = Len(words)
       /\ \A k \in 1..n :
            LET first == FirstWordOf(lines, k)
                last == LastWordOf(lines, k)
            IN /\ last <= Len(words)
               /\ lines[k].text = Spaced(words, first, last)
               /\ WordsIn(lines[k].text) >= 2 => Len(lines[k].text) <= call.maxChars
               /\ k < n =>
                    Len(lines[k].text) + 1 + Len(words[last + 1].word) > call.maxChars
               /\ lines[k].start = words[first].start
               /\ lines[k].end = words[last].end

\* four words went into a line of two words that just fits, a line of one
\* word too long for any line, and a last line
C26_Witness ==
  /\ WordLinesReturned
  /\ Len(call.words) = 4
  /\ Len(call.lines) = 3
  /\ Len(call.lines[1].text) = call.maxChars
  /\ WordsIn(call.lines[1].text) = 2
  /\ Len(call.lines[2].text) > call.maxChars

\* -----------------------------------------------------------------
\* generateAss: the Dialogue events of a clip's subtitle track
\* Times are in milliseconds.
\* -----------------------------------------------------------------
MaxAssSegments == 2
MaxAssTextLen == 2

\* a JavaScript number: NaN, or a time in milliseconds
Num(ms) == [nan |-> FALSE, ms |-> ms]
NaN == [nan |-> TRUE, ms |-> 0]

\* the while loop of smartSplit and the push of what remains
RECURSIVE SplitLoop(_, _, _)
SplitLoop(remaining, maxChars, lines) ==
  IF Len(remaining) > maxChars
    THEN LET breakIdx == BreakIdx(remaining, maxChars)
         IN SplitLoop(trim(slice(remaining, breakIdx, Len(remaining))), maxChars,
                      Append(lines, trim(slice(remaining, 0, breakIdx))))
    ELSE IF remaining # << >> THEN Append(lines, remaining) ELSE lines

\* smartSplit as a function of its arguments
smartSplit(text, maxChars) ==
  IF Len(text) <= maxChars THEN << text >> ELSE SplitLoop(text, maxChars, << >>)

\* formatAssTime: H:MM:SS.cc as its four numbers; every part of NaN is NaN
formatAssTime(sec) ==
  IF sec.nan THEN << "NaN", "NaN", "NaN", "NaN" >>
  ELSE << sec.ms \div 3600000,
          (sec.ms % 3600000) \div 60000,
          (sec.ms % 60000) \div 1000,
          ((sec.ms % 1000) + 5) \div 10 >>

\* one Dialogue line; seg is the position of the segment it was made for
Dialogue(seg, start, end, text) ==
  [seg |-> seg, start |-> formatAssTime(start), end |-> formatAssTime(end),
   text |-> text]

\* the Dialogue lines of a segment with word timing
WordDialogues(seg, wordLines) ==
  [k \in 1..Len(wordLines) |->
     Dialogue(seg, Num(wordLines[k].start), Num(wordLines[k].end), wordLines[k].text)]

\* (seg.end - seg.start) * (line.length / totalLen), NaN for 0 / 0
LineDuration(s, line, totalLen) ==
  IF totalLen = 0 THEN NaN ELSE Num(((s.end - s.start) * Len(line)) \div totalLen)

\* cursor + lineDuration
Plus(a, b) == IF a.nan \/ b.nan THEN NaN ELSE Num(a.ms + b.ms)

\* the Dialogue lines of a segment without word timing, from the k-th line on
RECURSIVE LineDialogues(_, _, _, _, _, _)
LineDialogues(seg, s, lines, totalLen, k, cursor) ==
  IF k > Len(lines) THEN << >>
  ELSE LET lineDuration == LineDuration(s, lines[k], totalLen)
       IN << Dialogue(seg, cursor, Plus(cursor, lineDuration), lines[k]) >>
          \o LineDialogues(seg, s, lines, totalLen, k + 1, Plus(cursor, lineDuration))

\* the body of the for loop over the segments
SegmentDialogues(seg, s, maxChars) ==
  LET lines == smartSplit(s.text, maxChars)
  IN IF Len(s.words) > 0
       THEN WordDialogues(seg, distributeWordsToLines(s.words, maxChars))
       ELSE LineDialogues(seg, s, lines, Len(Joined(lines)), 1, Num(s.start))

RECURSIVE DialoguesFrom(_, _, _)
DialoguesFrom(segments, maxChars, seg) ==
  IF seg > Len(segments) THEN << >>
  ELSE SegmentDialogues(seg, segments[seg], maxChars)
       \o DialoguesFrom(segments, maxChars, seg + 1)

\* the dialogues generateAss writes under [Events]
generateAss(segments, maxChars) == DialoguesFrom(segments, maxChars, 1)

AssTexts == { text \in Texts : Len(text) <= MaxAssTextLen }

\* no word timing, or one word of at most MaxAssTextLen letters
AssWords ==
  { words \in WordLists :
      Len(words) <= 1 /\ \A i \in 1..Len(words) : Len(words[i].word) <= MaxAssTextLen }

\* the i-th segment of a clip's track lasts 600 ms of its second
AssSegment(i, text, words) ==
  [start |-> 1000 * i, end |-> 1000 * i + 600, text |-> text, words |-> words]

\* the tracks of up to maxSegments segments
AssTracks(maxSegments) ==
  UNION { { [i \in 1..n |-> AssSegment(i, texts[i], words[i])] :
              texts \in [1..n -> AssTexts], words \in [1..n -> AssWords] } :
          n \in 0..maxSegments }

NewAssCall(segments, maxChars) ==
  [fn |-> "generateAss", segments |-> segments, maxChars |-> maxChars,
   pc |-> "called", dialogues |-> << >>]

\* generateAss runs to its writeFileSync
GenerateAssWrites ==
  /\ call.fn = "generateAss" /\ call.pc = "called"
  /\ call' = [call EXCEPT !.pc = "written",
                          !.dialogues = generateAss(call.segments, call.maxChars)]
  /\ UNCHANGED << activePipelines, conns, runs, disk >>

InitAss ==
  /\ NoPipeline
  /\ call \in { NewAssCall(segments, maxChars) :
                  segments \in AssTracks(MaxAssSegments), maxChars \in Widths }

NextAss == GenerateAssWrites

\* generateAss from its call to the written file
SpecAss == InitAss /\ [][NextAss]_vars

\* C21: a transcript segment with zero words and empty text contributes no
\* Dialogue event to the subtitle track generateAss writes.
C21_EmptySegmentNoDialogue ==
  (call.fn = "generateAss" /\ call.pc = "written") =>
    \A seg \in 1..Len(call.segments) :
      (call.segments[seg].words = << >> /\ call.segments[seg].text = << >>) =>
        \A k \in 1..Len(call.dialogues) : call.dialogues[k].seg # seg

\* =================================================================
\* getSegmentsInRange (lib/template-renderer): a clip's slice of the
\* transcript.  Times are points of a grid of seconds.
\* =================================================================
MaxRangeTick == 3

\* the pairs start <= end between two grid points
Spans(lo, hi) == { p \in (lo..hi) \X (lo..hi) : p[1] <= p[2] }

\* the word lists of a segment: up to two words, one after the other, inside
\* the segment
WordsWithin(lo, hi) ==
  { << >> } \cup
  { << [word |-> << "a" >>, start |-> p[1], end |-> p[2]] >> : p \in Spans(lo, hi) } \cup
  { << [word |-> << "a" >>, start |-> pq[1][1], end |-> pq[1][2]],
       [word |-> << "a" >>, start |-> pq[2][1], end |-> pq[2][2]] >> :
      pq \in { two \in Spans(lo, hi) \X Spans(lo, hi) : two[1][2] <= two[2][1] } }

\* TranscriptSegment; its text tells the segments of a transcript apart
TranscriptSegment(nth, span, words) ==
  [start |-> span[1], end |-> span[2], text |-> [i \in 1..nth |-> "a"], words |-> words]

SegmentsWithin(nth, lo, hi) ==
  UNION { { TranscriptSegment(nth, span, words) : words \in WordsWithin(span[1], span[2]) } :
          span \in Spans(lo, hi) }

\* transcripts of up to two segments in the order they were spoken
Transcripts ==
  { << >> } \cup
  { << s >> : s \in SegmentsWithin(1, 0, MaxRangeTick) } \cup
  UNION { { << s, next >> : next \in SegmentsWithin(2, s.end, MaxRangeTick) } :
          s \in SegmentsWithin(1, 0, MaxRangeTick) }

\* a clip's window: startSec < endSec
Windows == { p \in Spans(0, MaxRangeTick) : p[1] < p[2] }

\* a filter that also keeps a segment touching a window edge
OverlapsOrTouches(s, startSec, endSec) == s.end >= startSec /\ s.start <= endSec

\* s.end > startSec && s.start < endSec
Overlaps(s, startSec, endSec) == s.end > startSec /\ s.start < endSec

\* the object the map callback makes of a kept segment
ShiftSegment(s, startSec, endSec) ==
  [start |-> Max(0, s.start - startSec),
   end |-> Min(endSec - startSec, s.end - startSec),
   text |-> s.text,
   words |-> [k \in 1..Len(s.words) |->
                [word |-> s.words[k].word,
                 start |-> Max(0, s.words[k].start - startSec),
                 end |-> Min(endSec - startSec, s.words[k].end - startSec)]]]

getSegmentsInRange(segments, startSec, endSec) ==
  LET kept == SelectSeq(segments, LAMBDA s : Overlaps(s, startSec, endSec))
  IN [k \in 1..Len(kept) |-> ShiftSegment(kept[k], startSec, endSec)]

NewRangeCall(segments, window) ==
  [fn |-> "getSegmentsInRange", segments |-> segments,
   startSec |-> window[1], endSec |-> window[2], pc |-> "called", result |-> << >>]

GetSegmentsInRangeReturns ==
  /\ call.fn = "getSegmentsInRange" /\ call.pc = "called"
  /\ call' = [call EXCEPT
       !.pc = "returned",
       !.result = getSegmentsInRange(call.segments, call.startSec, call.endSec)]
  /\ UNCHANGED << activePipelines, conns, runs, disk >>

InitRange ==
  /\ NoPipeline
  /\ call \in { NewRangeCall(segments, window) :
                  segments \in Transcripts, window \in Windows }

NextRange == GetSegmentsInRangeReturns

\* getSegmentsInRange from its call to its return
SpecRange == InitRange /\ [][NextRange]_vars

RangeReturned == call.fn = "getSegmentsInRange" /\ call.pc = "returned"

\* the texts of a list of segments, in order
TextsOf(segments) == [k \in 1..Len(segments) |-> segments[k].text]

\* C22: the segments selected for a clip's subtitle track are exactly the
\* transcript segments with end > clip start and start < clip end, in
\* transcript order; a segment outside [startSec,endSec], one that only
\* touches a window edge included, is excluded.
C22_SegmentsOverlappingWindow ==
  RangeReturned =>
    TextsOf(call.result) =
      TextsOf(SelectSeq(call.segments,
                LAMBDA s : s.end > call.startSec /\ s.start < call.endSec))

\* of two segments, the first ends where the window starts and is left out,
\* the second lies inside the window and is kept
C22_Witness ==
  /\ RangeReturned
  /\ Len(call.segments) = 2
  /\ call.segments[1].start < call.segments[1].end
  /\ call.segments[1].end = call.startSec
  /\ call.segments[2].end <= call.endSec
  /\ Len(call.result) = 1
  /\ call.result[1].text = call.segments[2].text

\* start and end are clip-relative, inside the clip and in order
WithinClip(x) ==
  /\ 0 <= x.start
  /\ x.start <= x.end
  /\ x.end <= call.endSec - call.startSec

\* C23: after slicing, every timestamp of the clip's track, segment start/end
\* and each word's start/end, is clip-relative and within [0, clipDuration]
\* with start <= end, also for the words of a boundary-crossing segment that
\* lie wholly before the clip start or wholly after the clip end.
C23_TimestampsWithinClip ==
  RangeReturned =>
    \A k \in 1..Len(call.result) :
      /\ WithinClip(call.result[k])
      /\ \A w \in 1..Len(call.result[k].words) : WithinClip(call.result[k].words[w])

\* =================================================================
\* Reconnecting observers (app/api/status/route.ts GET)
\* =================================================================
\* connection cid's abort listener runs in this step
Aborts(cid) == ~conns[cid].aborted /\ conns'[cid].aborted

\* an abort takes the project's entry out of the registry only when the
\* entry is the aborting connection's; another connection's entry and its
\* stream are left as they are
AbortSparesNewer ==
  \A cid \in 1..Len(conns) :
    Aborts(cid) =>
      LET p == conns[cid].project
          current == activePipelines[p]
      IN IF current = cid
           THEN activePipelines'[p] = 0
           ELSE /\ activePipelines'[p] = current
                /\ current # 0 => conns'[current] = conns[current]

\* the registered connection of a project, its stream open, gets every
\* message the project's runs emit in a step
RegisteredReceives ==
  \A p \in Projects :
    LET current == activePipelines[p]
    IN (current # 0 /\ conns[current].controller) =>
         \A r \in 1..Len(runs) :
           runs[r].project = p =>
             conns'[current].received[r] =
               conns[current].received[r]
                 \o [k \in 1..(Len(runs'[r].emitted) - Len(runs[r].emitted)) |->
                       Len(runs[r].emitted) + k]

MaxBatch == 2

\* the clip lists of up to MaxBatch clips, each with or without story
\* metadata
ClipBatches ==
  UNION { { [i \in 1..n |-> NewClip(i, f[i])] : f \in [1..n -> BOOLEAN] } :
          n \in 0..MaxBatch }

\* one run of runPipeline, no observer, the highlight picker returning up to
\* MaxBatch clips
NextManifest ==
  \/ \E p \in Projects, validUrl \in BOOLEAN : OnePOST(p, validUrl)
  \/ \E r \in RunIds, pct \in NativePcts : DownloadProgress(r, pct)
  \/ \E r \in RunIds : DownloadResolves(r)
  \/ \E r \in RunIds : ExtractAudioResolves(r)
  \/ \E r \in RunIds : TranscribeResolves(r)
  \/ \E r \in RunIds : DetectSilenceResolves(r)
  \/ \E r \in RunIds, clips \in ClipBatches : AnalyzeResolves(r, clips)
  \/ \E r \in RunIds : ExtractClipResolves(r)
  \/ \E r \in RunIds : RenderClipResolves(r)
  \/ \E r \in RunIds : ComposeStoryResolves(r)
  \/ \E r \in RunIds : BackendRejects(r)

SpecManifest == Init /\ [][NextManifest]_vars

\* pending, extracted, rendered, story-composed, in that order
StatusRank(status) ==
  CASE status = "pending" -> 0
    [] status = "extracted" -> 1
    [] status = "rendered" -> 2
    [] status = "story-composed" -> 3

\* every rewrite of the manifest by the run that wrote it keeps the clips,
\* their ids, count and order, moves no status backwards, and leaves a
\* rendered clip without story metadata as it is
ManifestKeepsClips ==
  \A r \in 1..Len(runs) :
    LET old == disk[runs[r].project].analysis
        new == disk'[runs[r].project].analysis
    IN (old.by = r /\ new.by = r) =>
         /\ Len(new.clips) = Len(old.clips)
         /\ \A i \in 1..Len(old.clips) :
              /\ new.clips[i].id = old.clips[i].id
              /\ new.clips[i].storyMeta = old.clips[i].storyMeta
              /\ StatusRank(new.clips[i].status) >= StatusRank(old.clips[i].status)
              /\ (~old.clips[i].storyMeta /\ old.clips[i].status = "rendered")
                   => new.clips[i] = old.clips[i]

\* the manifest a successful run leaves
ManifestAtEnd ==
  \A r \in 1..Len(runs) :
    runs[r].status = "resolved" =>
      LET manifest == disk[runs[r].project].analysis
      IN /\ manifest.by = r
         /\ \A i \in 1..Len(manifest.clips) :
              LET clip == manifest.clips[i]
              IN /\ clip.id = i
                 /\ clip.sourcePath /\ clip.renderedPath
                 /\ IF clip.storyMeta
                      THEN clip.status = "story-composed" /\ clip.storyPath
                      ELSE clip.status = "rendered" /\ ~clip.storyPath

\* C29: after a successful run the persisted manifest holds the clips
\* highlight selection produced, same ids, count and order; each clip's
\* status only moved forward along pending, extracted, rendered,
\* story-composed; a clip ends story-composed with a storyPath exactly when
\* it carries storyMeta, otherwise rendered and untouched by the story stage.
C29_ManifestKeepsBatch == []ManifestAtEnd /\ [][ManifestKeepsClips]_vars

\* a run ended with two clips in the manifest, the first composed into a
\* story, the second without story metadata and left rendered
C29_Witness ==
  \E r \in 1..Len(runs) :
    LET manifest == disk[runs[r].project].analysis
    IN /\ runs[r].status = "resolved"
       /\ Len(manifest.clips) = 2
       /\ manifest.clips[1].storyMeta
       /\ manifest.clips[1].status = "story-composed"
       /\ ~manifest.clips[2].storyMeta
       /\ manifest.clips[2].status = "rendered"

\* =================================================================
\* parseSilenceOutput (lib/silence-detect): ffmpeg's silencedetect log
\* =================================================================
MaxLogLines == 5
MaxSilenceTick == 2

\* let currentStart: number | null = null
NoStart == -1

\* The lines of the log by the pattern they match: "start" matches
\* /silence_start:\s*([\d.]+)/ and carries its number; "end" does not match
\* it and matches /silence_end: ... | silence_duration: .../, carrying both
\* numbers; "other" matches neither.
StartLine(start) == [kind |-> "start", start |-> start, end |-> 0, duration |-> 0]
EndLine(end, duration) == [kind |-> "end", start |-> 0, end |-> end, duration |-> duration]
OtherLine == [kind |-> "other", start |-> 0, end |-> 0, duration |-> 0]

LogLines ==
  { StartLine(tick) : tick \in 1..MaxSilenceTick } \cup
  { EndLine(tick + 1, 1) : tick \in 1..MaxSilenceTick } \cup
  { OtherLine }

Logs == UNION { [1..n -> LogLines] : n \in 0..MaxLogLines }

\* currentStart after a gap is pushed, left as it was
PendingKept(currentStart) == currentStart

\* currentStart = null after a gap is pushed
PendingAfterGap(currentStart) == NoStart

\* the for loop over the lines from the i-th on
RECURSIVE ParseFrom(_, _, _, _)
ParseFrom(lines, i, currentStart, gaps) ==
  IF i > Len(lines) THEN gaps
  ELSE LET line == lines[i]
       IN IF line.kind = "start"
            THEN ParseFrom(lines, i + 1, line.start, gaps)
            ELSE IF line.kind = "end" /\ currentStart # NoStart
              THEN ParseFrom(lines, i + 1, PendingAfterGap(currentStart),
                     Append(gaps, [start |-> currentStart, end |-> line.end,
                                   duration |-> line.duration]))
              ELSE ParseFrom(lines, i + 1, currentStart, gaps)

\* gaps.sort((a, b) => a.start - b.start): a stable sort by start
RECURSIVE SortByStart(_)
SortByStart(gaps) ==
  IF gaps = << >> THEN << >>
  ELSE LET sorted == SortByStart(SubSeq(gaps, 1, Len(gaps) - 1))
           gap == gaps[Len(gaps)]
           keep == Len(SelectSeq(sorted, LAMBDA g : g.start <= gap.start))
       IN SubSeq(sorted, 1, keep) \o << gap >> \o SubSeq(sorted, keep + 1, Len(sorted))

parseSilenceOutput(lines) == SortByStart(ParseFrom(lines, 1, NoStart, << >>))

NewParseCall(lines) == [fn |-> "parseSilenceOutput", lines |-> lines, results |-> << >>]

\* the log is parsed, a first and then a second time
ParseSilenceOutputReturns ==
  /\ call.fn = "parseSilenceOutput"
  /\ Len(call.results) < 2
  /\ call' = [call EXCEPT !.results = Append(@, parseSilenceOutput(call.lines))]
  /\ UNCHANGED << activePipelines, conns, runs, disk >>

InitParse ==
  /\ NoPipeline
  /\ call \in { NewParseCall(lines) : lines \in Logs }

NextParse == ParseSilenceOutputReturns

\* parseSilenceOutput applied to one log
SpecParse == InitParse /\ [][NextParse]_vars

\* line i is a start whose end line j comes before any other start; no end
\* line lies between them
PairedAt(lines, i, j) ==
  /\ i < j
  /\ lines[i].kind = "start"
  /\ lines[j].kind = "end"
  /\ \A k \in (i + 1)..(j - 1) : lines[k].kind = "other"

\* the pairs of lines that announce a gap
AnnouncedPairs(lines) ==
  { p \in (1..Len(lines)) \X (1..Len(lines)) : PairedAt(lines, p[1], p[2]) }

GapOf(lines, p) ==
  [start |-> lines[p[1]].start, end |-> lines[p[2]].end,
   duration |-> lines[p[2]].duration]

Routes ==
  { "download", "transcribe", "silence", "analyze", "extract", "render", "story",
    "hooking", "upload", "titles", "clips", "video", "pipeline" }

\* the handler's body is inside try { ... } catch (error) { return
\* json({ error: message }, 500) }
TryCatch(route) == route \notin { "clips", "video" }

\* the handler starts with await req.json(); the GET handlers read
\* searchParams
JsonBody(route) == route \notin { "clips", "video" }

\* the handler answers a missing artifact of an earlier step itself
NeedsFile(route) ==
  route \in { "transcribe", "silence", "analyze", "extract", "render", "story",
              "upload", "video" }

\* the handler does JSON.parse(readFileSync(...)) of a persisted manifest or
\* metadata file
ParsesJson(route) == route \in { "analyze", "extract", "render", "story", "clips" }

\* the handler awaits a library call, or reads the file it serves; the
\* pipeline route starts runPipeline without awaiting it
HasBackend(route) == route \notin { "clips", "pipeline" }

\* the error answers a handler writes itself: NextResponse.json({ error })
\* everywhere but in the video route, which answers with a text body
OwnError(route) == IF route = "video" THEN "text" ELSE "error-json"

\* what a request meets: a body that parses, the required parameters, the
\* artifact of the earlier step, valid JSON in it, a backend that succeeds
Scenarios ==
  [bodyOk : BOOLEAN, paramsOk : BOOLEAN, filePresent : BOOLEAN,
   fileValid : BOOLEAN, backendOk : BOOLEAN]

NewRequest(route, scenario) ==
  [fn |-> "route", route |-> route, meets |-> scenario, pc |-> "received",
   response |-> "none"]

RouteAt(pc) == call.fn = "route" /\ call.pc = pc

Respond(response) == [call EXCEPT !.pc = "responded", !.response = response]

\* something throws inside the handler
Raise == Respond(IF TryCatch(call.route) THEN "error-json" ELSE "uncaught")

\* the body is read and the parameters are checked
RouteReadsRequest ==
  /\ RouteAt("received")
  /\ call' = IF JsonBody(call.route) /\ ~call.meets.bodyOk THEN Raise
             ELSE IF ~call.meets.paramsOk THEN Respond(OwnError(call.route))
             ELSE [call EXCEPT !.pc = "validated"]
  /\ UNCHANGED << activePipelines, conns, runs, disk >>

\* the artifacts of earlier steps are looked up and parsed
RouteLoadsFiles ==
  /\ RouteAt("validated")
  /\ call' = IF NeedsFile(call.route) /\ ~call.meets.filePresent
               THEN Respond(OwnError(call.route))
             ELSE IF call.route = "clips" /\ ~call.meets.filePresent
               THEN Respond("ok")
             ELSE IF ParsesJson(call.route) /\ ~call.meets.fileValid THEN Raise
             ELSE IF HasBackend(call.route) THEN [call EXCEPT !.pc = "working"]
             ELSE Respond("ok")
  /\ UNCHANGED << activePipelines, conns, runs, disk >>

\* the awaited library call settles
RouteBackendSettles ==
  /\ RouteAt("working")
  /\ call' = IF call.meets.backendOk THEN Respond("ok") ELSE Raise
  /\ UNCHANGED << activePipelines, conns, runs, disk >>

InitRoutes ==
  /\ NoPipeline
  /\ call \in { NewRequest(route, scenario) : route \in Routes, scenario \in Scenarios }

NextRoutes ==
  \/ RouteReadsRequest
  \/ RouteLoadsFiles
  \/ RouteBackendSettles

\* one request to one route, from its arrival to the response
SpecRoutes == InitRoutes /\ [][NextRoutes]_vars

\* C24: every failure of an API operation (download, transcribe, silence,
\* analyze, extract, render, story, hooking, upload, titles, clips listing,
\* video serving, pipeline start) reaches the caller as a structured
\* {error: message} result and never as an uncaught exception, also when a
\* persisted manifest or metadata file is unreadable or not valid JSON.
C24_StructuredErrors ==
  (RouteAt("responded") /\ call.response # "ok") => call.response = "error-json"

\* =================================================================
\* transcribe (lib/whisper): whisper.cpp first, Python whisper second
\* =================================================================
\* TranscribeOptions.model
WhisperModels == { "tiny", "base", "small", "medium", "large" }

\* TranscribeOptions.language: detection, or a language code
WhisperLanguages == { "auto", "en", "ko" }

\* attempts: the backends started, in order; caught: the errors a catch
\* block took and did not rethrow; err: the error transcribe threw
NewTranscribeCall(model, language) ==
  [fn |-> "transcribe", model |-> model, language |-> language, pc |-> "called",
   attempts |-> << >>, caught |-> << >>, err |-> "none"]

TranscribeAt(pc) == call.fn = "transcribe" /\ call.pc = pc

\* catch { ...; return await runPythonWhisper(...) }
FallBack(message) ==
  [call EXCEPT !.pc = "python", !.caught = Append(@, message),
               !.attempts = Append(@, "python")]

\* try { return await runWhisperCpp(...) }: the whisper binary is started
TranscribeEnters ==
  /\ TranscribeAt("called")
  /\ call' = [call EXCEPT !.pc = "whisper.cpp", !.attempts = << "whisper.cpp" >>]
  /\ UNCHANGED << activePipelines, conns, runs, disk >>

\* whisper exited normally; parseWhisperCppOutput throws if it left no file
WhisperCppResolves(outputFound) ==
  /\ TranscribeAt("whisper.cpp")
  /\ call' = IF outputFound THEN [call EXCEPT !.pc = "returned"]
             ELSE FallBack("Whisper output not found")
  /\ UNCHANGED << activePipelines, conns, runs, disk >>

\* execFile rejects: no binary, a non-zero exit, the timeout
WhisperCppRejects ==
  /\ TranscribeAt("whisper.cpp")
  /\ call' = FallBack("whisper failed")
  /\ UNCHANGED << activePipelines, conns, runs, disk >>

\* python -m whisper exited normally; parsePythonWhisperOutput throws if it
\* left no file
PythonWhisperResolves(outputFound) ==
  /\ TranscribeAt("python")
  /\ call' = IF outputFound THEN [call EXCEPT !.pc = "returned"]
             ELSE [call EXCEPT !.pc = "thrown", !.err = "Whisper output not found"]
  /\ UNCHANGED << activePipelines, conns, runs, disk >>

PythonWhisperRejects ==
  /\ TranscribeAt("python")
  /\ call' = [call EXCEPT !.pc = "thrown", !.err = "python failed"]
  /\ UNCHANGED << activePipelines, conns, runs, disk >>

InitTranscribe ==
  /\ NoPipeline
  /\ call \in { NewTranscribeCall(model, language) :
                  model \in WhisperModels, language \in WhisperLanguages }

NextTranscribe ==
  \/ TranscribeEnters
  \/ \E outputFound \in BOOLEAN : WhisperCppResolves(outputFound)
  \/ WhisperCppRejects
  \/ \E outputFound \in BOOLEAN : PythonWhisperResolves(outputFound)
  \/ PythonWhisperRejects

\* the transcription stage's backend call, from call to return or throw
SpecTranscribe == InitTranscribe /\ [][NextTranscribe]_vars

\* C25: apart from the speech-synthesis fallback, an error raised by a
\* stage's backend is never caught and ignored and never followed by an
\* automatic second attempt: the first backend failure inside any stage, the
\* transcription stage included, propagates out and ends the run.
C25_NoSwallowNoRetry ==
  call.fn = "transcribe" => (call.caught = << >> /\ Len(call.attempts) <= 1)

=============================================================================
